---------------------------- MODULE Spec2Model ----------------------------
(***************************************************************************)
(* Model of the Blockies multiplayer relay (src/game.js, server part):     *)
(* the session registry, the room registry with host authority, the       *)
(* reconnection grace timers, the seeded piece dealer and the state relay. *)
(***************************************************************************)
EXTENDS Integers, Sequences, FiniteSets, TLC

(***************************************************************************)
(* 32-bit words.  A JavaScript uint32 is kept as <<hi, lo>>, two 16-bit   *)
(* halves, so that no intermediate value leaves the range of an integer.  *)
(***************************************************************************)
Half == 65536

\* F(v) with v evaluated once, before F is applied to it
Let1(v, F(_)) == CHOOSE y \in {F(x) : x \in {v}} : TRUE

\* 2^(i - 1) for i in 1..16
P2 == <<1, 2, 4, 8, 16, 32, 64, 128, 256, 512, 1024, 2048, 4096, 8192, 16384, 32768>>

Pow2(n) == IF n = 16 THEN Half ELSE P2[n + 1]

XorBit(a, b, i) == (((a \div P2[i]) + (b \div P2[i])) % 2) * P2[i]

\* a ^ b for a, b < 2^16
Xor16(a, b) ==
    XorBit(a, b, 1) + XorBit(a, b, 2) + XorBit(a, b, 3) + XorBit(a, b, 4)
    + XorBit(a, b, 5) + XorBit(a, b, 6) + XorBit(a, b, 7) + XorBit(a, b, 8)
    + XorBit(a, b, 9) + XorBit(a, b, 10) + XorBit(a, b, 11) + XorBit(a, b, 12)
    + XorBit(a, b, 13) + XorBit(a, b, 14) + XorBit(a, b, 15) + XorBit(a, b, 16)

OrBit(a, b, i) ==
    IF ((a \div P2[i]) % 2) + ((b \div P2[i]) % 2) > 0 THEN P2[i] ELSE 0

\* a | b for a, b < 2^16
Or16(a, b) ==
    OrBit(a, b, 1) + OrBit(a, b, 2) + OrBit(a, b, 3) + OrBit(a, b, 4)
    + OrBit(a, b, 5) + OrBit(a, b, 6) + OrBit(a, b, 7) + OrBit(a, b, 8)
    + OrBit(a, b, 9) + OrBit(a, b, 10) + OrBit(a, b, 11) + OrBit(a, b, 12)
    + OrBit(a, b, 13) + OrBit(a, b, 14) + OrBit(a, b, 15) + OrBit(a, b, 16)

\* a ^ b
WXor(a, b) ==
    Let1(<<a, b>>, LAMBDA p : <<Xor16(p[1][1], p[2][1]), Xor16(p[1][2], p[2][2])>>)

\* c | a, for a constant c < 2^16
WOrSmall(c, a) == Let1(a, LAMBDA p : <<p[1], Or16(p[2], c)>>)

\* a >>> n, 0 < n < 16
WShr(a, n) ==
    Let1(a, LAMBDA p :
        <<p[1] \div Pow2(n), (p[2] \div Pow2(n)) + (p[1] % Pow2(n)) * Pow2(16 - n)>>)

\* (a + b) mod 2^32
WAdd(a, b) ==
    Let1(<<a, b>>, LAMBDA p :
        <<(p[1][1] + p[2][1] + ((p[1][2] + p[2][2]) \div Half)) % Half,
          (p[1][2] + p[2][2]) % Half>>)

\* x * y for x, y < 2^16, as <<high half, low half>> of the 32-bit product
Mul16(x, y) ==
    Let1(<<x * (y % 256), x * (y \div 256)>>, LAMBDA p :
        Let1(p[1] + 256 * (p[2] % 256), LAMBDA low :
            <<((p[2] \div 256) + (low \div Half)) % Half, low % Half>>))

\* Math.imul(a, b): the low 32 bits of a * b
Imul(a, b) ==
    Let1(<<a, b>>, LAMBDA p :
        Let1(<<Mul16(p[1][2], p[2][2]), Mul16(p[1][1], p[2][2]), Mul16(p[1][2], p[2][1])>>,
             LAMBDA m : <<(m[1][1] + m[2][2] + m[3][2]) % Half, m[1][2]>>))

\* Math.floor((u / 2^32) * n) for a uint32 u and 0 < n < 2^15: the product
\* u * n is below 2^53, so the double arithmetic of the code is exact
FloorScale(u, n) == (u[1] * n + ((u[2] * n) \div Half)) \div Half

(***************************************************************************)
(* Piece dealer                                                            *)
(***************************************************************************)
PIECE_ORDER == <<"I", "O", "T", "S", "Z", "J", "L">>

MulberryInc == <<27947, 31221>>   \* 0x6D2B79F5

\* One call of the closure that mulberry32 returns, as a function of the
\* counter t kept in the closure: the new counter and the uint32 numerator
\* of the returned fraction (value / 4294967296).  The counter is kept
\* modulo 2^32; the code keeps it as a double, which its bit operations
\* read modulo 2^32.
mulberry32(t) ==
    Let1(WAdd(t, MulberryInc), LAMBDA t1 :
    Let1(Imul(WXor(t1, WShr(t1, 15)), WOrSmall(1, t1)), LAMBDA r1 :
    Let1(WXor(r1, WAdd(r1, Imul(WXor(r1, WShr(r1, 7)), WOrSmall(61, r1)))), LAMBDA r2 :
        [t |-> t1, value |-> WXor(r2, WShr(r2, 14))])))

\* An exchange that loses the element at i
SwapCopying(list, i, j) ==
    Let1(list, LAMBDA l : [l EXCEPT ![i] = l[j]])

Swap(list, i, j) ==
    Let1(list, LAMBDA l : [l EXCEPT ![i] = l[j], ![j] = l[i]])

\* One iteration of the loop of shuffleWithRng at index i (0-based)
ShuffleStep(list, t, i) ==
    Let1(mulberry32(t), LAMBDA g :
        [list |-> Swap(list, i + 1, FloorScale(g.value, i + 1) + 1), t |-> g.t])

\* The loop of shuffleWithRng from index i down to 1
RECURSIVE ShuffleFrom(_, _, _)
ShuffleFrom(list, t, i) ==
    IF i <= 0 THEN [list |-> list, t |-> t]
    ELSE Let1(ShuffleStep(list, t, i), LAMBDA sh : ShuffleFrom(sh.list, sh.t, i - 1))

shuffleWithRng(items, t) == ShuffleFrom(items, t, Len(items) - 1)

\* seed >>> 0.  A seed is given as <<h, l>> with 0 <= l < 2^16 and any
\* integer h, standing for the number h * 2^16 + l.
ToUint32(seed) == <<seed[1] % Half, seed[2]>>

createPieceDealer(seed) ==
    [seed |-> ToUint32(seed), t |-> ToUint32(seed), bag |-> <<>>]

\* The pieces that n successive bag.pop() calls return
PopMany(bag, n) == [i \in 1..n |-> bag[Len(bag) - i + 1]]

\* The loop of nextBatch; the iterations between two refills of the bag are
\* taken together (they only pop).
\* The bag that the next pop() reads, with the counter of the generator:
\* a new shuffle of PIECE_ORDER when the bag is empty.
Refill(dealer) ==
    IF Len(dealer.bag) = 0
    THEN shuffleWithRng(PIECE_ORDER, dealer.t)
    ELSE [list |-> dealer.bag, t |-> dealer.t]

\* The iterations of the loop of nextBatch up to the next refill, taken
\* together: the dealer, the pieces and the count left after them.
DealStep(dealer, pieces, count) ==
    Let1(Refill(dealer), LAMBDA sh :
        LET n == IF count < Len(sh.list) THEN count ELSE Len(sh.list)
        IN  <<[seed |-> dealer.seed, t |-> sh.t,
               bag |-> SubSeq(sh.list, 1, Len(sh.list) - n)],
              pieces \o PopMany(sh.list, n),
              count - n>>)

RECURSIVE DealLoop(_, _, _)
DealLoop(dealer, pieces, count) ==
    IF count <= 0 THEN [dealer |-> dealer, pieces |-> pieces]
    ELSE Let1(DealStep(dealer, pieces, count), LAMBDA nxt :
             DealLoop(nxt[1], nxt[2], nxt[3]))

\* nextBatch that starts every batch with a new bag
nextBatchNewBag(dealer, count) ==
    DealLoop([dealer EXCEPT !.bag = <<>>], <<>>, count)

nextBatch(dealer, count) == DealLoop(dealer, <<>>, count)


(***************************************************************************)
(* Bounds of the model                                                     *)
(***************************************************************************)
MaxSockets == 3      \* transports ever opened (socket ids are never reused)
MaxSessions == 2     \* sessions ever minted
MaxRooms == 1        \* rooms ever created (room ids are never reused)
MaxSeq == 1          \* largest snapshot / input sequence number explored
RelaySockets == 2    \* the same, for the runs that keep the message log
RelaySessions == 2
RelayRooms == 1

(***************************************************************************)
(* Program constants                                                       *)
(***************************************************************************)
AVAILABLE_COLORS == <<"#FF1493", "#00D9FF", "#FFDB58", "#39FF14">>
MAX_PLAYERS == 4
INITIAL_BATCH == 224

Null == 0            \* null / undefined for ids and handles
NoColor == ""        \* null colour (falsy)
NoCode == <<>>       \* null access code
NoSeq == -1          \* a game-state payload without a numeric sequence field

\* Inputs the clients are modelled to send
OtherColor == "#FFFFFF"
ColorInputs == {AVAILABLE_COLORS[1], AVAILABLE_COLORS[2], OtherColor, NoColor}
SeedInputs == {<<0, 1>>}
BodyInputs == {"a"}

VARIABLES
    players,        \* Map socket.id -> {sessionId, roomId}: the open transports
    sessions,       \* Map sessionId -> session
    rooms,          \* Map roomId -> Room
    timers,         \* pending setTimeout callbacks: {[id, sessionId]}
    ioRooms,        \* socket.io adapter: socket.id -> set of joined room ids
    socketCount,    \* transports opened so far
    roomCount,      \* rooms created so far
    out,            \* messages emitted by the last handler, in order
    last,           \* the handler that ran last: [op, id]
    reservation,    \* history: sessionId -> [roomId, color] of a member whose
                    \* transport closed, until it re-identifies or its timer fires
    recording,      \* whether the run keeps `out`, `last` and `reservation`
    pieceDealer,    \* a piece dealer under test: [seed, t, bag]
    drawn,          \* the pieces it has dealt so far
    batches,        \* the sizes of the batches it was asked for
    gameState       \* the client's game: board, players, sharedStats, isGameOver

vars == <<players, sessions, rooms, timers, ioRooms, socketCount, roomCount, out,
          last, reservation, recording, pieceDealer, drawn, batches, gameState>>

NoPayload == [present |-> FALSE, body |-> "", sequence |-> 0, inputAcks |-> <<>>]

NoGame ==
    [present |-> FALSE, seed |-> <<0, 0>>, dealer |-> createPieceDealer(<<0, 0>>),
     initialPieces |-> <<>>, stateSequence |-> 0, inputSequence |-> 0,
     lastStatePayload |-> NoPayload, lastInputByPlayer |-> <<>>]

Msg(ev, to, data) == [ev |-> ev, to |-> to, data |-> data]

\* The log of the handler that just ran, when the run keeps one
Emit(msgs) == IF recording THEN msgs ELSE <<>>

NoOp == [op |-> "", id |-> 0, reserved |-> FALSE]

Put(f, k, v) == (k :> v) @@ f
Drop(f, k) == [j \in DOMAIN f \ {k} |-> f[j]]

RECURSIVE FirstIndex(_, _, _)
\* Array.prototype.findIndex over a sequence; 0 when absent
FirstIndex(seq, P(_), i) ==
    IF i > Len(seq) THEN 0
    ELSE IF P(seq[i]) THEN i ELSE FirstIndex(seq, P, i + 1)

RemoveAt(seq, i) == SubSeq(seq, 1, i - 1) \o SubSeq(seq, i + 1, Len(seq))

(***************************************************************************)
(* class Room                                                              *)
(***************************************************************************)
NewRoom(hostSessionId) ==
    [hostSessionId |-> hostSessionId, players |-> <<>>, gameStarted |-> FALSE,
     usedColors |-> {}, isPrivate |-> FALSE, accessCode |-> NoCode,
     currentGame |-> NoGame]

hostSocketId(room) ==
    LET IsHost(p) == p.sessionId = room.hostSessionId /\ p.connected /\ p.socketId # Null
        i == FirstIndex(room.players, IsHost, 1)
    IN  IF i = 0 THEN Null ELSE room.players[i].socketId

getPlayerBySession(room, sessionId) ==
    LET Is(p) == p.sessionId = sessionId
    IN  FirstIndex(room.players, Is, 1)

getPlayerBySocket(room, socketId) ==
    LET Is(p) == p.socketId = socketId
    IN  FirstIndex(room.players, Is, 1)

\* pickNextHost that takes the first member, connected or not
pickNextHostFirst(room) ==
    IF Len(room.players) > 0
    THEN [room EXCEPT !.hostSessionId = room.players[1].sessionId]
    ELSE room

pickNextHost(room) ==
    LET IsConnected(p) == p.connected
        i == FirstIndex(room.players, IsConnected, 1)
    IN  IF i # 0 THEN [room EXCEPT !.hostSessionId = room.players[i].sessionId]
        ELSE IF Len(room.players) > 0
             THEN [room EXCEPT !.hostSessionId = room.players[1].sessionId]
             ELSE room

FirstFreeColor(room) ==
    LET Free(c) == c \notin room.usedColors
        i == FirstIndex(AVAILABLE_COLORS, Free, 1)
    IN  IF i = 0 THEN NoColor ELSE AVAILABLE_COLORS[i]

\* addOrUpdatePlayer that gives a returning member a colour anew
addOrUpdatePlayerRecolored(room, sessionId, socketId, preferredColor) ==
    LET i == getPlayerBySession(room, sessionId)
        reservedColor ==
            IF preferredColor # NoColor /\ preferredColor \notin room.usedColors
            THEN preferredColor
            ELSE FirstFreeColor(room)
    IN  IF i # 0
        THEN [success |-> TRUE, rejoined |-> TRUE,
              room |-> [room EXCEPT !.players[i].socketId = socketId,
                                    !.players[i].connected = TRUE,
                                    !.players[i].ready = FALSE,
                                    !.players[i].color = FirstFreeColor(room),
                                    !.usedColors = (@ \ {room.players[i].color})
                                                   \cup {FirstFreeColor(room)}]]
        ELSE IF Len(room.players) >= MAX_PLAYERS \/ reservedColor = NoColor
             THEN [success |-> FALSE, rejoined |-> FALSE, room |-> room]
             ELSE [success |-> TRUE, rejoined |-> FALSE,
                   room |-> [room EXCEPT
                       !.players = Append(@, [sessionId |-> sessionId,
                                              socketId |-> socketId,
                                              color |-> reservedColor,
                                              ready |-> FALSE,
                                              connected |-> TRUE]),
                       !.usedColors = @ \cup {reservedColor}]]

\* addOrUpdatePlayer that seats a new member whatever the number of members
addOrUpdatePlayerUnbounded(room, sessionId, socketId, preferredColor) ==
    LET i == getPlayerBySession(room, sessionId)
        reservedColor ==
            IF preferredColor # NoColor /\ preferredColor \notin room.usedColors
            THEN preferredColor
            ELSE FirstFreeColor(room)
    IN  IF i # 0
        THEN [success |-> TRUE, rejoined |-> TRUE,
              room |-> [room EXCEPT !.players[i].socketId = socketId,
                                    !.players[i].connected = TRUE,
                                    !.players[i].ready = FALSE]]
        ELSE [success |-> TRUE, rejoined |-> FALSE,
              room |-> [room EXCEPT
                  !.players = Append(@, [sessionId |-> sessionId,
                                         socketId |-> socketId,
                                         color |-> reservedColor,
                                         ready |-> FALSE,
                                         connected |-> TRUE]),
                  !.usedColors = @ \cup {reservedColor}]]

addOrUpdatePlayer(room, sessionId, socketId, preferredColor) ==
    LET i == getPlayerBySession(room, sessionId)
        reservedColor ==
            IF preferredColor # NoColor /\ preferredColor \notin room.usedColors
            THEN preferredColor
            ELSE FirstFreeColor(room)
    IN  IF i # 0
        THEN [success |-> TRUE, rejoined |-> TRUE,
              room |-> [room EXCEPT !.players[i].socketId = socketId,
                                    !.players[i].connected = TRUE,
                                    !.players[i].ready = FALSE]]
        ELSE IF Len(room.players) >= MAX_PLAYERS \/ reservedColor = NoColor
             THEN [success |-> FALSE, rejoined |-> FALSE, room |-> room]
             ELSE [success |-> TRUE, rejoined |-> FALSE,
                   room |-> [room EXCEPT
                       !.players = Append(@, [sessionId |-> sessionId,
                                              socketId |-> socketId,
                                              color |-> reservedColor,
                                              ready |-> FALSE,
                                              connected |-> TRUE]),
                       !.usedColors = @ \cup {reservedColor}]]

\* markPlayerDisconnected that drops the member instead of keeping its seat
markPlayerDisconnectedRemoving(room, sessionId) ==
    LET i == getPlayerBySession(room, sessionId)
        spliced == [room EXCEPT !.players = RemoveAt(@, i),
                                !.usedColors = @ \ {room.players[i].color}]
        after == IF sessionId = room.hostSessionId THEN pickNextHost(spliced) ELSE spliced
    IN  IF i = 0
        THEN [updated |-> FALSE, hostChanged |-> FALSE, room |-> room]
        ELSE [updated |-> TRUE,
              hostChanged |-> after.hostSessionId # room.hostSessionId,
              room |-> after]

markPlayerDisconnected(room, sessionId) ==
    LET i == getPlayerBySession(room, sessionId)
        marked == [room EXCEPT !.players[i].connected = FALSE,
                               !.players[i].socketId = Null,
                               !.players[i].ready = FALSE]
        after == IF sessionId = room.hostSessionId THEN pickNextHost(marked) ELSE marked
    IN  IF i = 0
        THEN [updated |-> FALSE, hostChanged |-> FALSE, room |-> room]
        ELSE [updated |-> TRUE,
              hostChanged |-> after.hostSessionId # room.hostSessionId,
              room |-> after]

\* removePlayer without the election of a new host
removePlayerKeepingHost(room, sessionId) ==
    LET i == getPlayerBySession(room, sessionId)
    IN  IF i = 0
        THEN [removed |-> FALSE, hostChanged |-> FALSE, room |-> room]
        ELSE [removed |-> TRUE, hostChanged |-> FALSE,
              room |-> [room EXCEPT !.players = RemoveAt(@, i),
                                    !.usedColors = @ \ {room.players[i].color}]]

removePlayer(room, sessionId) ==
    LET i == getPlayerBySession(room, sessionId)
        spliced == [room EXCEPT !.players = RemoveAt(@, i),
                                !.usedColors = @ \ {room.players[i].color}]
        after == IF sessionId = room.hostSessionId THEN pickNextHost(spliced) ELSE spliced
    IN  IF i = 0
        THEN [removed |-> FALSE, hostChanged |-> FALSE, room |-> room]
        ELSE [removed |-> TRUE,
              hostChanged |-> after.hostSessionId # room.hostSessionId,
              room |-> after]

\* setPlayerColor without `this.usedColors.delete(player.color)`
setPlayerColorKeepingOld(room, sessionId, color) ==
    LET i == getPlayerBySession(room, sessionId)
    IN  IF color = NoColor \/ color \in room.usedColors \/ i = 0
        THEN [success |-> FALSE, room |-> room]
        ELSE [success |-> TRUE,
              room |-> [room EXCEPT !.usedColors = @ \cup {color},
                                    !.players[i].color = color]]

\* setPlayerColor without the test `this.usedColors.has(color)`
setPlayerColorUnchecked(room, sessionId, color) ==
    LET i == getPlayerBySession(room, sessionId)
    IN  IF color = NoColor \/ i = 0
        THEN [success |-> FALSE, room |-> room]
        ELSE [success |-> TRUE,
              room |-> [room EXCEPT
                  !.usedColors = (@ \ {room.players[i].color}) \cup {color},
                  !.players[i].color = color]]

setPlayerColor(room, sessionId, color) ==
    LET i == getPlayerBySession(room, sessionId)
    IN  IF color = NoColor \/ color \in room.usedColors \/ i = 0
        THEN [success |-> FALSE, room |-> room]
        ELSE [success |-> TRUE,
              room |-> [room EXCEPT
                  !.usedColors = (@ \ {room.players[i].color}) \cup {color},
                  !.players[i].color = color]]

\* setPlayerReady that sets the flag of a member without a transport too
setPlayerReadyUnconnected(room, sessionId, ready) ==
    LET i == getPlayerBySession(room, sessionId)
    IN  IF i = 0 THEN room
        ELSE [room EXCEPT !.players[i].ready = ready]

setPlayerReady(room, sessionId, ready) ==
    LET i == getPlayerBySession(room, sessionId)
    IN  IF i = 0 \/ ~room.players[i].connected THEN room
        ELSE [room EXCEPT !.players[i].ready = ready]

allPlayersReady(room) ==
    /\ Len(room.players) > 0
    /\ \A i \in 1..Len(room.players) :
          room.players[i].connected /\ room.players[i].ready

\* createPieceDealer(seed).nextBatch(224), tabulated for the modelled seeds
InitialDeal == [s \in SeedInputs |-> nextBatch(createPieceDealer(s), INITIAL_BATCH)]

\* beginGame that forgets to clear the ready flags
beginGameKeepingReady(room, seed) ==
    Let1(InitialDeal[seed], LAMBDA dealt :
        [room EXCEPT
            !.gameStarted = TRUE,
            !.currentGame = [present |-> TRUE,
                             seed |-> ToUint32(seed),
                             dealer |-> dealt.dealer,
                             initialPieces |-> dealt.pieces,
                             stateSequence |-> 0,
                             inputSequence |-> 0,
                             lastStatePayload |-> NoPayload,
                             lastInputByPlayer |-> <<>>]])

\* beginGame that keeps, as the initial pieces, a batch drawn after the
\* dealer has already dealt a piece
beginGameLateBatch(room, seed) ==
    Let1(nextBatch(nextBatch(createPieceDealer(seed), 1).dealer, INITIAL_BATCH),
         LAMBDA dealt :
        [room EXCEPT
            !.players = [i \in 1..Len(room.players) |->
                            [room.players[i] EXCEPT !.ready = FALSE]],
            !.gameStarted = TRUE,
            !.currentGame = [present |-> TRUE,
                             seed |-> ToUint32(seed),
                             dealer |-> dealt.dealer,
                             initialPieces |-> dealt.pieces,
                             stateSequence |-> 0,
                             inputSequence |-> 0,
                             lastStatePayload |-> NoPayload,
                             lastInputByPlayer |-> <<>>]])

\* Number.isFinite(seed) holds for every seed the only caller passes
beginGame(room, seed) ==
    Let1(InitialDeal[seed], LAMBDA dealt :
        [room EXCEPT
            !.players = [i \in 1..Len(room.players) |->
                            [room.players[i] EXCEPT !.ready = FALSE]],
            !.gameStarted = TRUE,
            !.currentGame = [present |-> TRUE,
                             seed |-> ToUint32(seed),
                             dealer |-> dealt.dealer,
                             initialPieces |-> dealt.pieces,
                             stateSequence |-> 0,
                             inputSequence |-> 0,
                             lastStatePayload |-> NoPayload,
                             lastInputByPlayer |-> <<>>]])

\* getFullInfo(): the fields of the room that the clients are shown
getFullInfo(id, room) ==
    [id |-> id, hostId |-> hostSocketId(room), hostSessionId |-> room.hostSessionId,
     players |-> room.players, gameStarted |-> room.gameStarted]

(***************************************************************************)
(* Sessions, timers and the socket.io adapter                              *)
(***************************************************************************)
\* A session.  The handlers also write session.ready, session.connected and
\* session.socketId, and session.name; none of them ever reads these fields
\* (the room member carries its own copies, which are modelled), so the
\* model leaves them out.
NewSession ==
    [roomId |-> Null, color |-> NoColor, disconnectTimer |-> Null]

\* generateSessionId(): an id no session has yet
FreshSessionId == Cardinality(DOMAIN sessions) + 1

\* getSession(sessionId) # null
HasSession(sessionId) == sessionId # Null /\ sessionId \in DOMAIN sessions

\* a clearTimeout that cancels nothing
clearTimeoutLate(pending, handle) == pending

\* clearTimeout(handle)
clearTimeout(pending, handle) == {t \in pending : t.id # handle}

\* attachSessionToSocket: the session after it (its timer is cleared by the
\* caller's clearTimeout on the pending set)
attachSessionToSocket(session, socketId) ==
    [session EXCEPT !.disconnectTimer = Null]

\* Sockets that receive io.to(roomId).emit once `joined` is the adapter state
InRoom(joined, roomId) == {k \in DOMAIN joined : roomId \in joined[k]}

RoomsList(rs) == Msg("rooms-list", DOMAIN players, DOMAIN rs)

OpenSockets == DOMAIN players

(***************************************************************************)
(* io.on('connection')                                                     *)
(***************************************************************************)
Connect ==
    /\ LET k == socketCount + 1
       IN  /\ players' = Put(players, k, [sessionId |-> Null, roomId |-> Null])
           /\ ioRooms' = Put(ioRooms, k, {})
           /\ socketCount' = k
           /\ out' = Emit(<<Msg("rooms-list", {k}, DOMAIN rooms)>>)
    /\ UNCHANGED <<sessions, rooms, timers, roomCount>>

(***************************************************************************)
(* socket.on('identify')                                                   *)
(***************************************************************************)
Identify(k, providedSessionId) ==
    /\ k \in OpenSockets
    /\ LET known == HasSession(providedSessionId)
           sid == IF known THEN providedSessionId ELSE FreshSessionId
           before == IF known THEN sessions[sid] ELSE NewSession
           session == attachSessionToSocket(before, k)
           roomId == session.roomId
           hasRoom == roomId # Null /\ roomId \in DOMAIN rooms
           result == addOrUpdatePlayer(rooms[roomId], sid, k, session.color)
           room == result.room
           joined == [ioRooms EXCEPT ![k] = @ \cup {roomId}]
           info == getFullInfo(roomId, room)
           confirmed == Msg("session-confirmed", {k},
                            [sessionId |-> sid, restoredRoom |-> roomId # Null])
           resumed ==
               IF room.gameStarted /\ room.currentGame.present
                  /\ room.currentGame.lastStatePayload.present
               THEN <<Msg("game-start", {k},
                          [players |-> info.players,
                           pieceSeed |-> room.currentGame.seed,
                           pieceSequence |-> room.currentGame.initialPieces,
                           hostId |-> info.hostId,
                           hostSessionId |-> info.hostSessionId,
                           resumed |-> TRUE]),
                      Msg("game-state", {k}, room.currentGame.lastStatePayload)>>
               ELSE <<>>
       IN  /\ timers' = clearTimeout(timers, before.disconnectTimer)
           /\ IF hasRoom /\ result.success
              THEN /\ rooms' = [rooms EXCEPT ![roomId] = room]
                   /\ sessions' = Put(sessions, sid,
                          [session EXCEPT
                              !.color = room.players[getPlayerBySession(room, sid)].color])
                   /\ players' = [players EXCEPT ![k] = [sessionId |-> sid, roomId |-> roomId]]
                   /\ ioRooms' = joined
                   /\ out' = Emit(<<confirmed,
                               Msg("room-joined", {k}, info),
                               Msg("room-update", InRoom(joined, roomId), info),
                               RoomsList(rooms')>> \o resumed)
              ELSE /\ rooms' = rooms
                   /\ sessions' = Put(sessions, sid, [session EXCEPT !.roomId = Null])
                   /\ players' = [players EXCEPT ![k] = [sessionId |-> sid, roomId |-> Null]]
                   /\ ioRooms' = ioRooms
                   /\ out' = Emit(<<confirmed>>)
    /\ UNCHANGED <<socketCount, roomCount>>

(***************************************************************************)
(* Access codes: strings are sequences of one-character strings            *)
(***************************************************************************)
Letters == <<"A", "B", "C", "D", "E", "F", "G", "H", "I", "J">>
Lower == <<"a", "b", "c", "d", "e", "f", "g", "h", "i", "j">>
Digits == {"0", "1", "2", "3", "4", "5", "6", "7", "8", "9"}

\* String.prototype.toUpperCase, one character
UpperChar(c) ==
    LET Is(x) == x = c
        i == FirstIndex(Lower, Is, 1)
    IN  IF i = 0 THEN c ELSE Letters[i]

toUpperCase(str) == [i \in 1..Len(str) |-> UpperChar(str[i])]

RECURSIVE TrimLeft(_)
TrimLeft(str) ==
    IF Len(str) > 0 /\ Head(str) = " " THEN TrimLeft(Tail(str)) ELSE str

RECURSIVE TrimRight(_)
TrimRight(str) ==
    IF Len(str) > 0 /\ str[Len(str)] = " "
    THEN TrimRight(SubSeq(str, 1, Len(str) - 1)) ELSE str

\* String.prototype.trim
trim(str) == TrimRight(TrimLeft(str))

IsCodeChar(c) == c \in Digits \/ \E i \in 1..Len(Letters) : Letters[i] = c

\* str.replace(/[^A-Z0-9]/g, '')
stripNonCode(str) == SelectSeq(str, IsCodeChar)

NotAString == <<"<not a string>">>

\* The normalisation without the removal of the other characters
normalizeAccessCodeUnstripped(str) ==
    LET code == toUpperCase(trim(str))
    IN  IF Len(code) > 8 THEN SubSeq(code, 1, 8) ELSE code

\* create-room: payload.accessCode.trim().toUpperCase().replace(...), cut to 8
normalizeAccessCode(str) ==
    LET code == stripNonCode(toUpperCase(trim(str)))
    IN  IF Len(code) > 8 THEN SubSeq(code, 1, 8) ELSE code

\* Whether create-room accepts the code of a private room
validAccessCode(str) ==
    str # NotAString /\ Len(stripNonCode(toUpperCase(trim(str)))) >= 4

(***************************************************************************)
(* socket.on('create-room')                                                *)
(***************************************************************************)
\* The session the handler acts for: the player's session, or a fresh one
\* (createSession + attachSessionToSocket) when the player has none.
ActingSession(k) ==
    IF HasSession(players[k].sessionId)
    THEN [id |-> players[k].sessionId, fresh |-> FALSE,
          session |-> sessions[players[k].sessionId]]
    ELSE [id |-> FreshSessionId, fresh |-> TRUE,
          session |-> attachSessionToSocket(NewSession, k)]

CreateRoom(k, isPrivate, code) ==
    /\ k \in OpenSockets
    /\ IF isPrivate /\ ~validAccessCode(code)
       THEN /\ out' = Emit(<<Msg("error", {k}, "Access code required")>>)
            /\ UNCHANGED <<players, sessions, rooms, timers, ioRooms, socketCount, roomCount>>
       ELSE LET acting == ActingSession(k)
                sid == acting.id
                session == acting.session
                roomId == roomCount + 1
                fresh == [NewRoom(sid) EXCEPT
                             !.isPrivate = isPrivate,
                             !.accessCode = IF isPrivate THEN normalizeAccessCode(code)
                                            ELSE NoCode]
                result == addOrUpdatePlayer(fresh, sid, k, session.color)
                room == result.room
            IN  /\ result.success
                /\ rooms' = Put(rooms, roomId, room)
                /\ sessions' = Put(sessions, sid,
                       [session EXCEPT
                           !.color = room.players[getPlayerBySession(room, sid)].color,
                           !.roomId = roomId,
                           !.disconnectTimer = Null])
                /\ timers' = clearTimeout(timers, session.disconnectTimer)
                /\ players' = [players EXCEPT ![k] = [sessionId |-> sid, roomId |-> roomId]]
                /\ ioRooms' = [ioRooms EXCEPT ![k] = @ \cup {roomId}]
                /\ roomCount' = roomId
                /\ out' = Emit(<<Msg("room-created", {k}, getFullInfo(roomId, room)),
                            RoomsList(rooms')>>)
                /\ UNCHANGED socketCount

(***************************************************************************)
(* socket.on('join-room')                                                  *)
(***************************************************************************)
JoinRoom(k, roomId, code) ==
    /\ k \in OpenSockets
    /\ LET accessCode == IF code = NotAString THEN NoCode ELSE toUpperCase(trim(code))
           Reject(message) ==
               /\ out' = Emit(<<Msg("error", {k}, message)>>)
               /\ UNCHANGED <<players, sessions, rooms, timers, ioRooms>>
       IN  IF roomId \notin DOMAIN rooms THEN Reject("Room not found")
           ELSE IF rooms[roomId].isPrivate
                   /\ (accessCode = NoCode \/ accessCode # rooms[roomId].accessCode)
                THEN Reject("Invalid access code")
           ELSE IF rooms[roomId].gameStarted THEN Reject("Game already started")
           ELSE LET acting == ActingSession(k)
                    sid == acting.id
                    session == acting.session
                    result == addOrUpdatePlayer(rooms[roomId], sid, k, session.color)
                    room == result.room
                    joined == [ioRooms EXCEPT ![k] = @ \cup {roomId}]
                    info == getFullInfo(roomId, room)
                IN  /\ IF ~result.success
                       THEN \* the session minted above stays in the registry
                            /\ sessions' = IF acting.fresh THEN Put(sessions, sid, session)
                                           ELSE sessions
                            /\ players' = IF acting.fresh
                                          THEN [players EXCEPT ![k].sessionId = sid]
                                          ELSE players
                            /\ out' = Emit(<<Msg("error", {k}, "Room is full")>>)
                            /\ UNCHANGED <<rooms, timers, ioRooms>>
                       ELSE /\ rooms' = [rooms EXCEPT ![roomId] = room]
                            /\ sessions' = Put(sessions, sid,
                                   [session EXCEPT
                                       !.color = room.players[getPlayerBySession(room, sid)].color,
                                       !.roomId = roomId,
                                       !.disconnectTimer = Null])
                            /\ timers' = clearTimeout(timers, session.disconnectTimer)
                            /\ players' = [players EXCEPT
                                              ![k] = [sessionId |-> sid, roomId |-> roomId]]
                            /\ ioRooms' = joined
                            /\ out' = Emit(<<Msg("room-joined", {k}, info),
                                        Msg("room-update", InRoom(joined, roomId), info),
                                        RoomsList(rooms')>>)
    /\ UNCHANGED <<socketCount, roomCount>>

(***************************************************************************)
(* socket.on('leave-room')                                                 *)
(***************************************************************************)
\* The guards shared by the room handlers: the player has a room, the room
\* and the player's session exist.
InRoomContext(k) ==
    /\ k \in OpenSockets
    /\ players[k].roomId # Null
    /\ players[k].roomId \in DOMAIN rooms
    /\ HasSession(players[k].sessionId)

Ignored ==
    /\ out' = Emit(<<>>)
    /\ UNCHANGED <<players, sessions, rooms, timers, ioRooms, socketCount, roomCount>>

\* What leave, kick and grace expiry do to the session of a removed member
releaseSession(session) ==
    [session EXCEPT !.roomId = Null, !.color = NoColor,
                    !.disconnectTimer = Null]

HostChanged(removal, info) ==
    IF removal.hostChanged
    THEN <<Msg("host-changed", InRoom(ioRooms', info.id),
               [hostId |-> info.hostId, hostSessionId |-> info.hostSessionId])>>
    ELSE <<>>

LeaveRoom(k) ==
    /\ k \in OpenSockets
    /\ IF ~InRoomContext(k) THEN Ignored
       ELSE LET roomId == players[k].roomId
                sid == players[k].sessionId
                removal == removePlayer(rooms[roomId], sid)
                room == removal.room
                info == getFullInfo(roomId, room)
            IN  IF ~removal.removed THEN Ignored
                ELSE /\ ioRooms' = [ioRooms EXCEPT ![k] = @ \ {roomId}]
                     /\ sessions' = [sessions EXCEPT ![sid] = releaseSession(@)]
                     /\ timers' = clearTimeout(timers, sessions[sid].disconnectTimer)
                     /\ players' = [players EXCEPT ![k].roomId = Null]
                     /\ IF Len(room.players) = 0
                        THEN /\ rooms' = Drop(rooms, roomId)
                             /\ out' = Emit(<<Msg("left-room", {k}, roomId), RoomsList(rooms')>>)
                        ELSE /\ rooms' = [rooms EXCEPT ![roomId] = room]
                             /\ out' = Emit(<<Msg("left-room", {k}, roomId),
                                         Msg("room-update", InRoom(ioRooms', roomId), info)>>
                                       \o HostChanged(removal, info)
                                       \o <<RoomsList(rooms')>>)
                     /\ UNCHANGED <<socketCount, roomCount>>

(***************************************************************************)
(* socket.on('kick-player')                                                *)
(***************************************************************************)
\* targetId is looked up as a session id first, then as a socket id
KickTarget(room, target) ==
    IF target.kind = "session"
    THEN getPlayerBySession(room, target.id)
    ELSE getPlayerBySocket(room, target.id)

KickPlayer(k, target) ==
    /\ k \in OpenSockets
    /\ IF ~InRoomContext(k) THEN Ignored
       ELSE LET roomId == players[k].roomId
                hostSession == players[k].sessionId
                before == rooms[roomId]
                i == KickTarget(before, target)
                targetEntry == before.players[i]
                tid == targetEntry.sessionId
                removal == removePlayer(before, tid)
                room == removal.room
                info == getFullInfo(roomId, room)
                targetOpen == targetEntry.socketId # Null
                              /\ targetEntry.socketId \in OpenSockets
                notify == IF targetOpen
                          THEN <<Msg("left-room", {targetEntry.socketId}, roomId),
                                 Msg("kicked", {targetEntry.socketId}, roomId)>>
                          ELSE <<>>
            IN  IF \/ before.hostSessionId # hostSession
                   \/ hostSocketId(before) # k
                   \/ i = 0
                   \/ tid = hostSession
                   \/ ~removal.removed
                THEN Ignored
                ELSE /\ sessions' = IF HasSession(tid)
                                    THEN [sessions EXCEPT ![tid] = releaseSession(@)]
                                    ELSE sessions
                     /\ timers' = IF HasSession(tid)
                                  THEN clearTimeout(timers, sessions[tid].disconnectTimer)
                                  ELSE timers
                     /\ ioRooms' = IF targetOpen
                                   THEN [ioRooms EXCEPT ![targetEntry.socketId] = @ \ {roomId}]
                                   ELSE ioRooms
                     /\ IF Len(room.players) = 0
                        THEN /\ rooms' = Drop(rooms, roomId)
                             /\ out' = Emit(notify \o <<RoomsList(rooms')>>)
                        ELSE /\ rooms' = [rooms EXCEPT ![roomId] = room]
                             /\ out' = Emit(notify
                                       \o <<Msg("room-update", InRoom(ioRooms', roomId), info)>>
                                       \o HostChanged(removal, info)
                                       \o <<RoomsList(rooms')>>)
                     /\ UNCHANGED <<players, socketCount, roomCount>>

(***************************************************************************)
(* socket.on('change-color')                                               *)
(***************************************************************************)
ChangeColor(k, color) ==
    /\ k \in OpenSockets
    /\ IF ~InRoomContext(k) THEN Ignored
       ELSE LET roomId == players[k].roomId
                sid == players[k].sessionId
                result == setPlayerColor(rooms[roomId], sid, color)
                room == result.room
            IN  IF ~result.success
                THEN /\ out' = Emit(<<Msg("error", {k}, "Color already taken")>>)
                     /\ UNCHANGED <<players, sessions, rooms, timers, ioRooms,
                                    socketCount, roomCount>>
                ELSE /\ rooms' = [rooms EXCEPT ![roomId] = room]
                     /\ sessions' = [sessions EXCEPT ![sid].color =
                            room.players[getPlayerBySession(room, sid)].color]
                     /\ out' = Emit(<<Msg("room-update", InRoom(ioRooms, roomId),
                                     getFullInfo(roomId, room))>>)
                     /\ UNCHANGED <<players, timers, ioRooms, socketCount, roomCount>>

(***************************************************************************)
(* socket.on('toggle-ready')                                               *)
(***************************************************************************)
\* The emissions of a toggle that starts the game
GameStartMessages(roomId, update, started, updatedInfo) ==
    <<update,
      Msg("game-start", InRoom(ioRooms, roomId),
          [players |-> updatedInfo.players,
           pieceSeed |-> started.currentGame.seed,
           pieceSequence |-> started.currentGame.initialPieces,
           hostId |-> updatedInfo.hostId,
           hostSessionId |-> updatedInfo.hostSessionId,
           resumed |-> FALSE]),
      Msg("room-update", InRoom(ioRooms, roomId), updatedInfo),
      RoomsList([rooms EXCEPT ![roomId] = started])>>

ToggleReady(k, randomSeed) ==
    /\ k \in OpenSockets
    /\ IF ~InRoomContext(k) THEN Ignored
       ELSE LET roomId == players[k].roomId
                sid == players[k].sessionId
                before == rooms[roomId]
                i == getPlayerBySession(before, sid)
            IN  IF i = 0 THEN Ignored
                ELSE \E toggled \in {setPlayerReady(before, sid, ~before.players[i].ready)} :
                     \E update \in {Msg("room-update", InRoom(ioRooms, roomId),
                                        getFullInfo(roomId, toggled))} :
                     /\ sessions' = sessions
                     /\ IF allPlayersReady(toggled) /\ Len(toggled.players) >= 1
                        THEN \E started \in {beginGame(toggled, randomSeed)} :
                             /\ rooms' = [rooms EXCEPT ![roomId] = started]
                             /\ out' = Emit(GameStartMessages(roomId, update, started,
                                                getFullInfo(roomId, started)))
                        ELSE /\ rooms' = [rooms EXCEPT ![roomId] = toggled]
                             /\ out' = Emit(<<update>>)
                     /\ UNCHANGED <<players, timers, ioRooms, socketCount, roomCount>>

(***************************************************************************)
(* socket.on('game-state'), socket.on('request-sync')                      *)
(***************************************************************************)
\* The guards of the relay handlers: the player's room exists and has a game
InGameContext(k) ==
    /\ k \in OpenSockets
    /\ players[k].roomId # Null
    /\ players[k].roomId \in DOMAIN rooms
    /\ rooms[players[k].roomId].currentGame.present

GameState(k, sequence, body) ==
    /\ k \in OpenSockets
    /\ IF ~InGameContext(k) THEN Ignored
       ELSE LET roomId == players[k].roomId
                room == rooms[roomId]
                game == room.currentGame
                nextSequence == IF sequence # NoSeq THEN sequence
                                ELSE game.stateSequence + 1
                payload == [present |-> TRUE, body |-> body, sequence |-> nextSequence,
                            inputAcks |-> game.lastInputByPlayer]
            IN  IF k # hostSocketId(room) THEN Ignored
                ELSE /\ rooms' = [rooms EXCEPT
                            ![roomId].currentGame.stateSequence = nextSequence,
                            ![roomId].currentGame.lastStatePayload = payload]
                     /\ out' = Emit(<<Msg("game-state", InRoom(ioRooms, roomId) \ {k}, payload)>>)
                     /\ UNCHANGED <<players, sessions, timers, ioRooms,
                                    socketCount, roomCount>>

\* request-sync answered to the whole room
RequestSyncToRoom(k) ==
    /\ k \in OpenSockets
    /\ IF ~InGameContext(k) THEN Ignored
       ELSE LET game == rooms[players[k].roomId].currentGame
            IN  IF ~game.lastStatePayload.present THEN Ignored
                ELSE /\ out' = Emit(<<Msg("game-state", InRoom(ioRooms, players[k].roomId),
                                          game.lastStatePayload)>>)
                     /\ UNCHANGED <<players, sessions, rooms, timers, ioRooms,
                                    socketCount, roomCount>>

RequestSync(k) ==
    /\ k \in OpenSockets
    /\ IF ~InGameContext(k) THEN Ignored
       ELSE LET game == rooms[players[k].roomId].currentGame
            IN  IF ~game.lastStatePayload.present THEN Ignored
                ELSE /\ out' = Emit(<<Msg("game-state", {k}, game.lastStatePayload)>>)
                     /\ UNCHANGED <<players, sessions, rooms, timers, ioRooms,
                                    socketCount, roomCount>>

(***************************************************************************)
(* socket.on('player-input')                                               *)
(***************************************************************************)
recordPlayerInput(game, sessionId, sequence) ==
    [game EXCEPT !.lastInputByPlayer = Put(@, sessionId, sequence)]

\* { playerId, sequence, ...data }: the fields of the client's object are
\* spread last, so a field the client supplies replaces the server's
Stamped(playerId, sequence, data) ==
    [playerId |-> IF data.playerId # Null THEN data.playerId ELSE playerId,
     sequence |-> IF data.sequence # NoSeq THEN data.sequence ELSE sequence,
     body |-> data.body]

PlayerInput(k, data) ==
    /\ k \in OpenSockets
    /\ IF ~InRoomContext(k) THEN Ignored
       ELSE LET roomId == players[k].roomId
                sid == players[k].sessionId
                game == rooms[roomId].currentGame
                sequence == game.inputSequence + 1
                others == InRoom(ioRooms, roomId) \ {k}
            IN  IF ~game.present
                THEN /\ out' = Emit(<<Msg("player-input", others,
                                         Stamped(sid, NoSeq, data)),
                                     Msg("input-ack", {k}, NoSeq)>>)
                     /\ UNCHANGED <<players, sessions, rooms, timers, ioRooms,
                                    socketCount, roomCount>>
                ELSE /\ rooms' = [rooms EXCEPT ![roomId].currentGame =
                            recordPlayerInput([game EXCEPT !.inputSequence = sequence],
                                              sid, sequence)]
                     /\ out' = Emit(<<Msg("player-input", others,
                                         Stamped(sid, sequence, data)),
                                     Msg("input-ack", {k}, sequence)>>)
                     /\ UNCHANGED <<players, sessions, timers, ioRooms,
                                    socketCount, roomCount>>

(***************************************************************************)
(* Reconnection monitor: socket.on('disconnect') and the grace timer       *)
(***************************************************************************)
\* scheduleSessionCleanup: arms a timer unless the session already has one.
\* The handle of a timer is the id of the transport whose close armed it.
scheduleSessionCleanup(session, sessionId, handle) ==
    IF session.disconnectTimer # Null
    THEN [session |-> session, armed |-> {}]
    ELSE [session |-> [session EXCEPT !.disconnectTimer = handle],
          armed |-> {[id |-> handle, sessionId |-> sessionId]}]

Disconnect(k) ==
    /\ k \in OpenSockets
    /\ LET sid == players[k].sessionId
           hasSession == HasSession(sid)
           session == sessions[sid]
           roomId == session.roomId
           hasRoom == roomId \in DOMAIN rooms
           marked == markPlayerDisconnected(rooms[roomId], sid)
           info == getFullInfo(roomId, marked.room)
           gone == Drop(ioRooms, k)
           scheduled == scheduleSessionCleanup(session, sid, k)
       IN  /\ players' = Drop(players, k)
           /\ ioRooms' = gone
           /\ IF hasSession /\ roomId # Null
              THEN /\ IF hasRoom /\ Len(marked.room.players) = 0
                      THEN /\ rooms' = Drop(rooms, roomId)
                           /\ out' = Emit(<<Msg("rooms-list", DOMAIN gone, DOMAIN rooms')>>)
                      ELSE IF hasRoom
                      THEN /\ rooms' = [rooms EXCEPT ![roomId] = marked.room]
                           /\ out' = Emit(<<Msg("room-update", InRoom(gone, roomId), info)>>
                                     \o (IF marked.hostChanged
                                         THEN <<Msg("host-changed", InRoom(gone, roomId),
                                                    [hostId |-> info.hostId,
                                                     hostSessionId |-> info.hostSessionId])>>
                                         ELSE <<>>)
                                     \o <<Msg("rooms-list", DOMAIN gone, DOMAIN rooms)>>)
                      ELSE /\ rooms' = rooms
                           /\ out' = Emit(<<>>)
                   /\ timers' = timers \cup scheduled.armed
                   /\ sessions' = [sessions EXCEPT ![sid] = scheduled.session]
              ELSE /\ rooms' = rooms
                   /\ timers' = timers
                   /\ out' = Emit(<<>>)
                   /\ sessions' = sessions
    /\ UNCHANGED <<socketCount, roomCount>>

\* finalizeSessionRoomCleanup(sessionId), run by the timer with handle h
finalizeSessionRoomCleanup(sid) ==
    LET session == sessions[sid]
        roomId == session.roomId
        hasRoom == roomId \in DOMAIN rooms
        removal == removePlayer(rooms[roomId], sid)
        room == removal.room
        info == getFullInfo(roomId, room)
    IN  IF ~HasSession(sid)
        THEN /\ out' = Emit(<<>>)
             /\ UNCHANGED <<sessions, rooms>>
        ELSE IF roomId = Null
        THEN /\ sessions' = [sessions EXCEPT ![sid].disconnectTimer = Null]
             /\ out' = Emit(<<>>)
             /\ UNCHANGED rooms
        ELSE /\ sessions' = [sessions EXCEPT ![sid] = releaseSession(@)]
             /\ IF hasRoom /\ removal.removed
                THEN IF Len(room.players) = 0
                     THEN /\ rooms' = Drop(rooms, roomId)
                          /\ out' = Emit(<<RoomsList(rooms')>>)
                     ELSE /\ rooms' = [rooms EXCEPT ![roomId] = room]
                          /\ out' = Emit(<<Msg("room-update", InRoom(ioRooms, roomId), info)>>
                                    \o (IF removal.hostChanged
                                        THEN <<Msg("host-changed", InRoom(ioRooms, roomId),
                                                   [hostId |-> info.hostId,
                                                    hostSessionId |-> info.hostSessionId])>>
                                        ELSE <<>>)
                                    \o <<RoomsList(rooms')>>)
                ELSE /\ rooms' = rooms
                     /\ out' = Emit(<<>>)

GraceExpiry(h) ==
    /\ h \in timers
    /\ timers' = timers \ {h}
    /\ finalizeSessionRoomCleanup(h.sessionId)
    /\ UNCHANGED <<players, ioRooms, socketCount, roomCount>>

(***************************************************************************)
(* The relay as a state machine                                            *)
(***************************************************************************)
Start ==
    /\ players = <<>>
    /\ sessions = <<>>
    /\ rooms = <<>>
    /\ timers = {}
    /\ ioRooms = <<>>
    /\ socketCount = 0
    /\ roomCount = 0
    /\ out = <<>>
    /\ last = NoOp
    /\ reservation = <<>>

\* No game is being played on this client
NoBoard == gameState = [boardWidth |-> 0,
                        board |-> <<>>, players |-> <<>>, sharedStats |-> <<>>,
                        isGameOver |-> FALSE]

\* No piece dealer is under test
NoDealer ==
    /\ pieceDealer = createPieceDealer(<<0, 0>>)
    /\ drawn = <<>>
    /\ batches = <<>>

\* What the clients are modelled to send
CodeInputs == {NotAString, <<"A", "B">>, <<"a", "b", "1", "2", "!", "!">>,
               <<" ", "a", "b", "c", "d", "e", "f", "g", "h", "i">>}
SessionIdInputs == {Null} \cup DOMAIN sessions
RoomIdInputs == 1..(roomCount + 1)
SessionTargets == [kind : {"session"}, id : DOMAIN sessions]
SocketTargets == [kind : {"socket"}, id : 1..socketCount]
SequenceInputs == {NoSeq} \cup 0..MaxSeq
\* Access codes offered to join-room: none, "ab12" and "ab12!!"
JoinCodes == {NotAString, <<"a", "b", "1", "2">>, <<"a", "b", "1", "2", "!", "!">>}
\* Input events: what the game client sends, and one that carries a sequence
\* field of its own
InputData == [body : BodyInputs, sequence : {NoSeq, 0}, playerId : {Null}]

\* The transport k that closes is the one a room member is attached to
ClosesMember(k) ==
    LET sid == players[k].sessionId
        roomId == sessions[sid].roomId
        i == getPlayerBySession(rooms[roomId], sid)
    IN  /\ HasSession(sid)
        /\ roomId # Null /\ roomId \in DOMAIN rooms
        /\ i # 0 /\ rooms[roomId].players[i].socketId = k

\* The history of the reconnection monitor: what a member held when its
\* transport closed
Reserve(op, id) ==
    IF op = "disconnect" /\ ClosesMember(id)
    THEN LET sid == players[id].sessionId
             room == rooms[sessions[sid].roomId]
         IN  Put(reservation, sid,
                 [roomId |-> sessions[sid].roomId,
                  color |-> room.players[getPlayerBySession(room, sid)].color])
    ELSE IF op = "identify" THEN Drop(reservation, players'[id].sessionId)
    ELSE IF op = "grace-expiry" THEN Drop(reservation, id)
    ELSE reservation

\* The handler acts on a session whose member's transport closed and whose
\* grace timer is still pending: a re-identify in time, or the timer firing
Reserved(op, id) ==
    IF op = "identify"
    THEN /\ players'[id].sessionId \in DOMAIN reservation
         /\ sessions[players'[id].sessionId].disconnectTimer # Null
    ELSE op = "grace-expiry" /\ id \in DOMAIN reservation

\* A handler, with the record of the handler that ran when the run keeps one
Logged(op, id, A) ==
    /\ A
    /\ last' = IF recording
               THEN [op |-> op, id |-> id, reserved |-> Reserved(op, id)]
               ELSE NoOp
    /\ reservation' = IF recording THEN Reserve(op, id) ELSE reservation

\* The handlers of the room registry and of the reconnection monitor
Lobby(privacy, codes, seeds) ==
    \/ Logged("connection", socketCount + 1, Connect)
    \/ \E k \in OpenSockets, s \in SessionIdInputs :
          Logged("identify", k, Identify(k, s))
    \/ \E k \in OpenSockets, p \in privacy, c \in codes :
          Logged("create-room", k, CreateRoom(k, p, c))
    \/ \E k \in OpenSockets, r \in RoomIdInputs, c \in codes :
          Logged("join-room", k, JoinRoom(k, r, c))
    \/ \E k \in OpenSockets : Logged("leave-room", k, LeaveRoom(k))
    \/ \E k \in OpenSockets, s \in seeds :
          Logged("toggle-ready", k, ToggleReady(k, s))
    \/ \E k \in OpenSockets : Logged("disconnect", k, Disconnect(k))
    \/ \E h \in timers : Logged("grace-expiry", h.sessionId, GraceExpiry(h))

\* Transports are interchangeable, so they are let into rooms in the order
\* they connected: transport k asks once every earlier one has a session
InTurn(k) == \A j \in 1..(k - 1) : j \in OpenSockets /\ players[j].sessionId # Null

\* The handlers that admit sessions to rooms, and the one that starts games;
\* the transports in lead are the ones that create rooms and toggle ready
Admission(privacy, createCodes, joinCodes, seeds, lead) ==
    \/ Logged("connection", socketCount + 1, Connect)
    \/ \E k \in OpenSockets \cap lead, p \in privacy, c \in createCodes :
          Logged("create-room", k, CreateRoom(k, p, c))
    \/ \E k \in OpenSockets, r \in RoomIdInputs, c \in joinCodes :
          InTurn(k) /\ Logged("join-room", k, JoinRoom(k, r, c))
    \/ \E k \in OpenSockets \cap lead, s \in seeds :
          Logged("toggle-ready", k, ToggleReady(k, s))

\* The handlers by which members go: leave, kick, transport close and the
\* grace timer
Departures(targets) ==
    \/ \E k \in OpenSockets : Logged("leave-room", k, LeaveRoom(k))
    \/ \E k \in OpenSockets, t \in targets :
          Logged("kick-player", k, KickPlayer(k, t))
    \/ \E k \in OpenSockets : Logged("disconnect", k, Disconnect(k))
    \/ \E h \in timers : Logged("grace-expiry", h.sessionId, GraceExpiry(h))

\* The reconnection monitor alone: transport close and the grace timer
Closures ==
    \/ \E k \in OpenSockets : Logged("disconnect", k, Disconnect(k))
    \/ \E h \in timers : Logged("grace-expiry", h.sessionId, GraceExpiry(h))

\* The handlers by which members act on the room: kicks and colour changes
Moderation(colors, targets) ==
    \/ \E k \in OpenSockets, t \in targets :
          Logged("kick-player", k, KickPlayer(k, t))
    \/ \E k \in OpenSockets, c \in colors :
          Logged("change-color", k, ChangeColor(k, c))

\* The handlers of the state relay: authoritative snapshots
Snapshots(sequences, bodies) ==
    \/ \E k \in OpenSockets, n \in sequences, b \in bodies :
          Logged("game-state", k, GameState(k, n, b))
    \/ \E k \in OpenSockets : Logged("request-sync", k, RequestSync(k))

\* The handlers of the state relay: player inputs
Inputs(data) ==
    \E k \in OpenSockets, d \in data : Logged("player-input", k, PlayerInput(k, d))

\* The ids and counters of the next state stay within the explored bounds
Within(maxSockets, maxSessions, maxRooms, maxSeq) ==
    /\ socketCount' <= maxSockets
    /\ Cardinality(DOMAIN sessions') <= maxSessions
    /\ roomCount' <= maxRooms
    /\ \A r \in DOMAIN rooms' :
          /\ rooms'[r].currentGame.stateSequence <= maxSeq
          /\ rooms'[r].currentGame.inputSequence <= maxSeq

(***************************************************************************)
(* Spec: the room registry and the reconnection monitor, public rooms,     *)
(* no message log.                                                         *)
(***************************************************************************)
Init == Start /\ NoDealer /\ NoBoard /\ recording = FALSE

Next ==
    /\ \/ Lobby({FALSE}, {NotAString}, SeedInputs)
       \/ Moderation({AVAILABLE_COLORS[1], AVAILABLE_COLORS[2], NoColor},
                     SessionTargets \cup SocketTargets)
    /\ Within(MaxSockets, MaxSessions, MaxRooms, MaxSeq)
    /\ UNCHANGED <<recording, pieceDealer, drawn, batches, gameState>>

Spec == Init /\ [][Next]_vars

(***************************************************************************)
(* SpecLobby: the room registry and the reconnection monitor, with the     *)
(* message log and the history of closed transports.                       *)
(***************************************************************************)
InitLobby == Start /\ NoDealer /\ NoBoard /\ recording = TRUE

NextLobby ==
    /\ \/ Lobby({FALSE}, {NotAString}, SeedInputs)
       \/ Moderation({AVAILABLE_COLORS[1], AVAILABLE_COLORS[2], NoColor}, SessionTargets)
    /\ Within(RelaySockets, RelaySessions, RelayRooms, MaxSeq)
    /\ UNCHANGED <<recording, pieceDealer, drawn, batches, gameState>>

SpecLobby == InitLobby /\ [][NextLobby]_vars

(***************************************************************************)
(* SpecRelay: the room registry and the snapshot relay, with the message   *)
(* log.                                                                    *)
(***************************************************************************)
InitRelay == Start /\ NoDealer /\ NoBoard /\ recording = TRUE

NextRelay ==
    /\ \/ Lobby({FALSE}, {NotAString}, SeedInputs)
       \/ Snapshots(SequenceInputs, BodyInputs)
    /\ Within(RelaySockets, RelaySessions, RelayRooms, MaxSeq)
    /\ UNCHANGED <<recording, pieceDealer, drawn, batches, gameState>>

SpecRelay == InitRelay /\ [][NextRelay]_vars

(***************************************************************************)
(* SpecInput: the room registry and the input relay, with the message log. *)
(***************************************************************************)
MaxInputSeq == 1

InitInput == Start /\ NoDealer /\ NoBoard /\ recording = TRUE

NextInput ==
    /\ \/ Lobby({FALSE}, {NotAString}, SeedInputs)
       \/ Inputs(InputData)
    /\ Within(RelaySockets, RelaySessions, RelayRooms, MaxInputSeq)
    /\ UNCHANGED <<recording, pieceDealer, drawn, batches, gameState>>

SpecInput == InitInput /\ [][NextInput]_vars

(***************************************************************************)
(* SpecEject: one room whose members are admitted in turn and go by every  *)
(* way there is (leave, kick, transport close, grace timer), with both     *)
(* relays and the message log; no session is identified a second time.     *)
(***************************************************************************)
InitEject == Start /\ NoDealer /\ NoBoard /\ recording = TRUE

NextEject ==
    /\ \/ Admission({FALSE}, {NotAString}, {NotAString}, SeedInputs, {1})
       \/ Departures(SessionTargets)
       \/ Inputs(InputData)
       \/ Snapshots(SequenceInputs, BodyInputs)
    /\ Within(RelaySockets, RelaySessions, RelayRooms, MaxSeq)
    /\ UNCHANGED <<recording, pieceDealer, drawn, batches, gameState>>

SpecEject == InitEject /\ [][NextEject]_vars

(***************************************************************************)
(* SpecDrain: the room registry and the reconnection monitor of SpecLobby, *)
(* where every armed grace timer fires: a setTimeout callback that is not  *)
(* cleared is run by the event loop once its delay has passed.             *)
(***************************************************************************)
InitDrain == Start /\ NoDealer /\ NoBoard /\ recording = TRUE

NextDrain ==
    /\ Lobby({FALSE}, {NotAString}, SeedInputs)
    /\ Within(RelaySockets, RelaySessions, RelayRooms, MaxSeq)
    /\ UNCHANGED <<recording, pieceDealer, drawn, batches, gameState>>

\* The callback of the timer armed with handle k for session s
TimerFires(k, s) ==
    /\ Logged("grace-expiry", s, GraceExpiry([id |-> k, sessionId |-> s]))
    /\ UNCHANGED <<recording, pieceDealer, drawn, batches, gameState>>

SpecDrain ==
    /\ InitDrain
    /\ [][NextDrain]_vars
    /\ \A k \in 1..RelaySockets, s \in 1..RelaySessions : WF_vars(TimerFires(k, s))

(***************************************************************************)
(* SpecAdmission: public and private rooms filled to capacity, with the    *)
(* message log; the first transport creates the room and toggles ready.   *)
(***************************************************************************)
AdmissionSockets == 5
AdmissionSessions == 5
AdmissionRooms == 1

InitAdmission == Start /\ NoDealer /\ NoBoard /\ recording = TRUE

NextAdmission ==
    /\ Admission({FALSE, TRUE}, CodeInputs, JoinCodes, SeedInputs, {1})
    /\ Within(AdmissionSockets, AdmissionSessions, AdmissionRooms, MaxSeq)
    /\ UNCHANGED <<recording, pieceDealer, drawn, batches, gameState>>

SpecAdmission == InitAdmission /\ [][NextAdmission]_vars

(***************************************************************************)
(* SpecRegistry: two rooms, members coming and going, no message log.      *)
(***************************************************************************)
RegistrySockets == 2
RegistrySessions == 2
RegistryRooms == 2

InitRegistry == Start /\ NoDealer /\ NoBoard /\ recording = FALSE

NextRegistry ==
    /\ \/ Admission({FALSE}, {NotAString}, {NotAString}, SeedInputs, 1..RegistrySockets)
       \/ Departures(SessionTargets)
    /\ Within(RegistrySockets, RegistrySessions, RegistryRooms, MaxSeq)
    /\ UNCHANGED <<recording, pieceDealer, drawn, batches, gameState>>

SpecRegistry == InitRegistry /\ [][NextRegistry]_vars

(***************************************************************************)
(* SpecHost: one room of three members coming and going, no message log.   *)
(***************************************************************************)
HostSockets == 3
HostSessions == 3
HostRooms == 1

InitHost == Start /\ NoDealer /\ NoBoard /\ recording = FALSE

NextHost ==
    /\ \/ Admission({FALSE}, {NotAString}, {NotAString}, SeedInputs, {1})
       \/ Departures(SessionTargets)
    /\ Within(HostSockets, HostSessions, HostRooms, MaxSeq)
    /\ UNCHANGED <<recording, pieceDealer, drawn, batches, gameState>>

SpecHost == InitHost /\ [][NextHost]_vars

(***************************************************************************)
(* SpecSeats: one room filled to capacity while members' transports close  *)
(* and their grace timers run, no message log.                             *)
(***************************************************************************)
SeatSockets == 5
SeatSessions == 5
SeatRooms == 1

InitSeats == Start /\ NoDealer /\ NoBoard /\ recording = FALSE

NextSeats ==
    /\ \/ Admission({FALSE}, {NotAString}, {NotAString}, SeedInputs, {1})
       \/ Closures
    /\ Within(SeatSockets, SeatSessions, SeatRooms, MaxSeq)
    /\ UNCHANGED <<recording, pieceDealer, drawn, batches, gameState>>

SpecSeats == InitSeats /\ [][NextSeats]_vars

(***************************************************************************)
(* SpecDealer: one piece dealer, asked for batches of any sizes.           *)
(***************************************************************************)
MaxBatch == 15
MaxBatches == 2

\* 0, 1, -1 and 2^32 + 5, as numbers h * 2^16 + l
DealerSeeds == {<<0, 0>>, <<0, 1>>, <<-1, 65535>>, <<65536, 5>>}

InitDealer ==
    /\ Start
    /\ recording = FALSE
    /\ \E seed \in DealerSeeds : pieceDealer = createPieceDealer(seed)
    /\ drawn = <<>>
    /\ batches = <<>>
    /\ NoBoard

\* dealer.nextBatch(count)
NextBatch(count) ==
    /\ Len(batches) < MaxBatches
    /\ \E dealt \in {nextBatch(pieceDealer, count)} :
          /\ pieceDealer' = dealt.dealer
          /\ drawn' = drawn \o dealt.pieces
    /\ batches' = Append(batches, count)
    /\ UNCHANGED <<players, sessions, rooms, timers, ioRooms, socketCount, roomCount,
                   out, last, reservation, recording, gameState>>

NextDealer == \E count \in 0..MaxBatch : NextBatch(count)

SpecDealer == InitDealer /\ [][NextDealer]_vars

(***************************************************************************)
(* The client's game: several players' pieces falling on one shared board  *)
(***************************************************************************)
BASE_LINE_SCORE == 100

\* Tetromino shapes
SHAPES == [I |-> <<<<1, 1, 1, 1>>>>,
           O |-> <<<<1, 1>>, <<1, 1>>>>,
           T |-> <<<<0, 1, 0>>, <<1, 1, 1>>>>,
           S |-> <<<<0, 1, 1>>, <<1, 1, 0>>>>,
           Z |-> <<<<1, 1, 0>>, <<0, 1, 1>>>>,
           J |-> <<<<1, 0, 0>>, <<1, 1, 1>>>>,
           L |-> <<<<0, 0, 1>>, <<1, 1, 1>>>>]

\* The board of the modelled games: BoardHeight rows (BOARD_HEIGHT is 20) of
\* BoardWidth cells for BoardPlayers players (BASE_BOARD_WIDTH is 10, for one)
\* and ColumnsPerPlayer more for each further player
\* (ADDITIONAL_COLUMNS_PER_PLAYER is 4)
BoardWidth == 4
BoardHeight == 6
BoardPlayers == 2
ColumnsPerPlayer == 2
MaxLocks == 5

\* computeBoardWidth(numPlayers), for at least one player
computeBoardWidth(numPlayers) ==
    BoardWidth + (numPlayers - BoardPlayers) * ColumnsPerPlayer

\* getBoardWidth(): gameState.boardWidth, which startGame() sets
getBoardWidth(gs) == gs.boardWidth

\* createEmptyBoard(width): board[y + 1][x + 1] is the source's board[y][x]
createEmptyBoard(width) == [y \in 1..BoardHeight |-> [x \in 1..width |-> 0]]

TEAM_SCORE_TEMPLATE == [score |-> 0, lines |-> 0, level |-> 1, comboChain |-> 0]

\* The filled cells <<x, y>> of a piece matrix, counted from 0 as in the source
Filled(piece) ==
    {c \in (0..(Len(piece[1]) - 1)) \X (0..(Len(piece) - 1)) : piece[c[2] + 1][c[1] + 1] # 0}

\* The board cells a piece at a position covers
Cells(piece, pos) == {<<pos.x + c[1], pos.y + c[2]>> : c \in Filled(piece)}

\* The board cells holding a locked block
Locked(board) ==
    {c \in (0..(Len(board[1]) - 1)) \X (0..(Len(board) - 1)) :
        board[c[2] + 1][c[1] + 1] # 0}

\* isCellOccupiedByOtherPiece looking only at where the other pieces start
isCellOccupiedByOtherPieceOrigin(gs, x, y, currentPlayerId) ==
    \E id \in DOMAIN gs.players :
       /\ id # currentPlayerId
       /\ ~gs.players[id].gameOver
       /\ gs.players[id].currentPiece # <<>>
       /\ x = gs.players[id].position.x
       /\ y = gs.players[id].position.y

\* isCellOccupiedByOtherPiece counting the pieces of eliminated players too
isCellOccupiedByOtherPieceEliminated(gs, x, y, currentPlayerId) ==
    \E id \in DOMAIN gs.players :
       /\ id # currentPlayerId
       /\ gs.players[id].currentPiece # <<>>
       /\ <<x, y>> \in Cells(gs.players[id].currentPiece, gs.players[id].position)

\* isCellOccupiedByOtherPiece(x, y, currentPlayerId)
isCellOccupiedByOtherPiece(gs, x, y, currentPlayerId) ==
    \E id \in DOMAIN gs.players :
       /\ id # currentPlayerId
       /\ ~gs.players[id].gameOver
       /\ gs.players[id].currentPiece # <<>>
       /\ <<x, y>> \in Cells(gs.players[id].currentPiece, gs.players[id].position)

\* checkCollision taking another player's falling piece for a locked block
checkCollisionLocking(gs, id, piece, pos) ==
    LET hit == \E c \in Cells(piece, pos) :
                  \/ c[1] < 0 \/ c[1] >= getBoardWidth(gs) \/ c[2] >= BoardHeight
                  \/ c[2] >= 0 /\ gs.board[c[2] + 1][c[1] + 1] # 0
                  \/ c[2] >= 0 /\ isCellOccupiedByOtherPiece(gs, c[1], c[2], id)
    IN [collides |-> hit, withLocked |-> hit, withActive |-> FALSE]

\* player.checkCollision(piece, pos): the cells are scanned row by row; the scan
\* returns at the first cell outside the board or on a locked block, and only
\* notes a cell on another player's falling piece
checkCollision(gs, id, piece, pos) ==
    LET Out(c) == \/ pos.x + c[1] < 0
                  \/ pos.x + c[1] >= getBoardWidth(gs)
                  \/ pos.y + c[2] >= BoardHeight
        Hard(c) == \/ Out(c)
                   \/ /\ pos.y + c[2] >= 0
                      /\ gs.board[pos.y + c[2] + 1][pos.x + c[1] + 1] # 0
        Before(d, c) == d[2] < c[2] \/ (d[2] = c[2] /\ d[1] < c[1])
        Soft(c) == /\ ~Hard(c)
                   /\ pos.y + c[2] >= 0
                   /\ isCellOccupiedByOtherPiece(gs, pos.x + c[1], pos.y + c[2], id)
                   /\ \A d \in Filled(piece) : Hard(d) => ~Before(d, c)
        withLocked == \E c \in Filled(piece) : Hard(c)
        withActive == \E c \in Filled(piece) : Soft(c)
    IN [collides |-> withLocked \/ withActive,
        withLocked |-> withLocked,
        withActive |-> withActive]

\* The clockwise rotation of a piece matrix, as built in player.rotate()
rotated(piece) ==
    [i \in 1..Len(piece[1]) |-> [j \in 1..Len(piece) |-> piece[Len(piece) + 1 - j][i]]]

\* Math.round(num / den) for den > 0: the nearest integer, halves upwards
Round(num, den) == (2 * num + den) \div (2 * den)

\* checkAllPlayersGameOver ending the game at the first elimination
checkAllPlayersGameOverSome(gs) ==
    IF \E id \in DOMAIN gs.players : gs.players[id].gameOver
    THEN [gs EXCEPT !.isGameOver = TRUE]
    ELSE gs

\* checkAllPlayersGameOver()
checkAllPlayersGameOver(gs) ==
    IF DOMAIN gs.players # {} /\ \A id \in DOMAIN gs.players : gs.players[id].gameOver
    THEN [gs EXCEPT !.isGameOver = TRUE]
    ELSE gs

Min2(a, b) == IF a < b THEN a ELSE b
Max2(a, b) == IF a > b THEN a ELSE b

\* The columns spawnPiece() tries at a distance from the preferred column
\* with the right one before the left one
candidatesRightFirst(preferredX, offset, boardWidth, pieceWidth) ==
    IF offset = 0 THEN <<preferredX>>
    ELSE (IF preferredX + offset <= boardWidth - pieceWidth
          THEN <<preferredX + offset>> ELSE <<>>)
         \o (IF preferredX - offset >= 0 THEN <<preferredX - offset>> ELSE <<>>)

\* The columns spawnPiece() tries at a distance from the preferred column
candidates(preferredX, offset, boardWidth, pieceWidth) ==
    IF offset = 0 THEN <<preferredX>>
    ELSE (IF preferredX - offset >= 0 THEN <<preferredX - offset>> ELSE <<>>)
         \o (IF preferredX + offset <= boardWidth - pieceWidth
             THEN <<preferredX + offset>> ELSE <<>>)

\* The search loop of spawnPiece() from a distance `offset` on, the columns
\* in `checked` tried already: the first column, by distance from the
\* preferred one, where the piece does not collide at row 0, in a tuple; the
\* empty tuple (null) if there is none
RECURSIVE spawnPosition(_, _, _, _, _, _)
spawnPosition(gs, id, piece, preferredX, offset, checked) ==
    IF offset >= getBoardWidth(gs) THEN <<>>
    ELSE Let1(SelectSeq(candidates(preferredX, offset,
                                   getBoardWidth(gs), Len(piece[1])),
                        LAMBDA candidate : candidate \notin checked),
              LAMBDA tried :
         Let1(SelectSeq(tried, LAMBDA candidate :
                           ~checkCollision(gs, id, piece,
                                           [x |-> candidate, y |-> 0]).collides),
              LAMBDA admitted :
            IF admitted # <<>>
            THEN <<[x |-> admitted[1], y |-> 0]>>
            ELSE Let1(checked \cup {tried[n] : n \in 1..Len(tried)}, LAMBDA seen :
                    spawnPosition(gs, id, piece, preferredX, offset + 1, seen))))

\* The placement part of player.spawnPiece(): `this` takes its next piece, a
\* new next piece (`next`, the outcome of randomPiece()) and the position
\* found by the search; with none found it is put at the preferred column and,
\* colliding there, eliminated
placed(gs, this, next) ==
    LET piece == this.nextPiece
        pieceWidth == Len(piece[1])
        boardWidth == getBoardWidth(gs)
        \* spawnAnchor - pieceWidth / 2, the anchor being a fraction <<num, den>>
        preferredX == Min2(boardWidth - pieceWidth,
                           Max2(0, Round(2 * this.spawnAnchor[1]
                                           - pieceWidth * this.spawnAnchor[2],
                                         2 * this.spawnAnchor[2])))
    IN Let1(spawnPosition(gs, this.id, piece, preferredX, 0, {}), LAMBDA spawned :
       Let1(IF spawned # <<>> THEN spawned[1] ELSE [x |-> preferredX, y |-> 0],
            LAMBDA position :
               [this EXCEPT !.currentPiece = piece,
                            !.nextPiece = next,
                            !.position = position,
                            !.gameOver =
                               IF /\ spawned = <<>>
                                  /\ checkCollision(gs, this.id, piece, position).collides
                               THEN TRUE ELSE @]))

\* player.spawnPiece() of a player of the running game
spawnPiece(gs, id, next) ==
    Let1(placed(gs, gs.players[id], next), LAMBDA this :
       Let1([gs EXCEPT !.players[id] = this], LAMBDA spawned :
          IF this.gameOver THEN checkAllPlayersGameOver(spawned) ELSE spawned))

\* player.merge()
merge(gs, id) ==
    LET this == gs.players[id]
        cells == Cells(this.currentPiece, this.position)
    IN [gs EXCEPT !.board =
           [y \in 1..BoardHeight |->
              [x \in 1..getBoardWidth(gs) |->
                 IF <<x - 1, y - 1>> \in cells THEN id + 1 ELSE gs.board[y][x]]]]

Full(row) == \A x \in DOMAIN row : row[x] # 0

NotFull(row) == ~Full(row)

\* board.splice(y, 1) followed by board.unshift(Array(boardWidth).fill(0))
spliced(board, y) == <<[x \in 1..Len(board[y]) |-> 0]>> \o RemoveAt(board, y)

\* The sweep loop without the second look at a row index after a removal
RECURSIVE sweepSkipping(_, _, _)
sweepSkipping(board, y, n) ==
    IF y = 0 THEN [board |-> board, linesCleared |-> n]
    ELSE IF Full(board[y])
         THEN sweepSkipping(spliced(board, y), y - 1, n + 1)
         ELSE sweepSkipping(board, y - 1, n)

\* The sweep loop of player.clearLines() from row y (source row y - 1) upwards
\* with n rows removed so far: a completed row is taken out, an empty row is
\* put on top and the same row index is looked at again
RECURSIVE sweep(_, _, _)
sweep(board, y, n) ==
    IF y = 0 THEN [board |-> board, linesCleared |-> n]
    ELSE IF Full(board[y])
         THEN Let1(spliced(board, y), LAMBDA rest : sweep(rest, y, n + 1))
         ELSE sweep(board, y - 1, n)

\* The number of rows the sweep removes
linesCleared(board) == sweep(board, BoardHeight, 0).linesCleared

\* The board after the sweep
swept(board) == sweep(board, BoardHeight, 0).board

\* A row score with the two bonuses added instead of multiplied
perLineScoreAdded(comboStep, n) ==
    Round(BASE_LINE_SCORE * (10 + comboStep + 2 * (n - 1)), 10)

\* The score of one row of a sweep of n rows at combo chain comboStep:
\* Math.round(BASE_LINE_SCORE * (1 + 0.1 * comboStep) * (1 + 0.2 * (n - 1))),
\* the multipliers kept as the fractions (10 + comboStep) / 10 and (5 + n - 1) / 5
perLineScore(comboStep, n) ==
    Round(BASE_LINE_SCORE * (10 + comboStep) * (5 + (n - 1)), 10 * 5)

\* The team statistics after a sweep, the combo chain surviving a sweep of
\* no rows
scoredKeepingChain(sharedStats, n) ==
    IF n = 0
    THEN sharedStats
    ELSE [score |-> sharedStats.score + perLineScore(sharedStats.comboChain, n) * n,
          lines |-> sharedStats.lines + n,
          level |-> ((sharedStats.lines + n) \div 10) + 1,
          comboChain |-> sharedStats.comboChain + 1]

\* The team statistics after a sweep of n rows
scored(sharedStats, n) ==
    IF n = 0
    THEN [sharedStats EXCEPT !.comboChain = 0]
    ELSE [score |-> sharedStats.score + perLineScore(sharedStats.comboChain, n) * n,
          lines |-> sharedStats.lines + n,
          level |-> ((sharedStats.lines + n) \div 10) + 1,
          comboChain |-> sharedStats.comboChain + 1]

\* The part of player.clearLines() after the sweep, n being linesCleared
tallied(gs, n) ==
    LET stats == scored(gs.sharedStats, n)
    IN IF n = 0
       THEN [gs EXCEPT !.sharedStats = stats]
       ELSE [gs EXCEPT !.sharedStats = stats,
                       !.players = [p \in DOMAIN gs.players |->
                                      [gs.players[p] EXCEPT !.lines = stats.lines,
                                                            !.score = stats.score,
                                                            !.level = stats.level]]]

\* player.clearLines()
clearLines(gs, id) ==
    tallied([gs EXCEPT !.board = swept(gs.board)], linesCleared(gs.board))

\* merge(), clearLines(), spawnPiece(): what drop() and hardDrop() do on landing
landed(gs, id, next) ==
    Let1(merge(gs, id), LAMBDA merged :
       Let1(clearLines(merged, id), LAMBDA cleared : spawnPiece(cleared, id, next)))

\* player.move(dir)
move(gs, id, dir) ==
    LET this == gs.players[id]
        pos == [this.position EXCEPT !.x = @ + dir]
    IN IF checkCollision(gs, id, this.currentPiece, pos).collides
       THEN gs
       ELSE [gs EXCEPT !.players[id].position = pos]

\* player.rotate()
rotate(gs, id) ==
    LET this == gs.players[id]
    IN IF checkCollision(gs, id, rotated(this.currentPiece), this.position).collides
       THEN gs
       ELSE [gs EXCEPT !.players[id].currentPiece = rotated(this.currentPiece)]

\* player.drop()
drop(gs, id, next) ==
    LET this == gs.players[id]
        pos == [this.position EXCEPT !.y = @ + 1]
    IN Let1(checkCollision(gs, id, this.currentPiece, pos), LAMBDA collision :
          IF ~collision.collides THEN [gs EXCEPT !.players[id].position = pos]
          ELSE IF collision.withLocked THEN landed(gs, id, next)
          ELSE gs)

\* The rows player.hardDrop() moves the piece down: it stops above the first
\* row where the piece collides, after BOARD_HEIGHT rows at the latest
RECURSIVE fall(_, _, _)
fall(gs, id, rows) ==
    LET this == gs.players[id]
        pos == [this.position EXCEPT !.y = @ + rows + 1]
    IN IF rows = BoardHeight \/ checkCollision(gs, id, this.currentPiece, pos).collides
       THEN rows
       ELSE fall(gs, id, rows + 1)

\* player.hardDrop()
hardDrop(gs, id, next) ==
    LET this == gs.players[id]
        rows == fall(gs, id, 0)
        moved == [gs EXCEPT !.players[id].position.y = @ + rows]
        collision == checkCollision(gs, id, this.currentPiece,
                                    [this.position EXCEPT !.y = @ + rows + 1])
    IN IF rows < BoardHeight /\ collision.withLocked
       THEN landed(moved, id, next)
       ELSE moved

\* new Player(id, ..., spawnAnchor) followed by the first line of init(): the
\* anchor ((id + 1) / (numPlayers + 1)) * boardWidth is kept as a fraction
newPlayer(id, numPlayers, boardWidth, first) ==
    [id |-> id,
     currentPiece |-> <<>>,
     nextPiece |-> first,
     position |-> [x |-> 0, y |-> 0],
     gameOver |-> FALSE,
     spawnAnchor |-> <<(id + 1) * boardWidth, numPlayers + 1>>,
     score |-> 0,
     level |-> 1,
     lines |-> 0]

\* The loop of startGame(numPlayers): each player is built, draws its pieces
\* (picks[id]), is placed among the players built before it and is then added
RECURSIVE addPlayers(_, _, _, _)
addPlayers(gs, id, numPlayers, picks) ==
    IF id = numPlayers THEN gs
    ELSE LET this == placed(gs, newPlayer(id, numPlayers, getBoardWidth(gs), picks[id][1]),
                            picks[id][2])
             checked == IF this.gameOver THEN checkAllPlayersGameOver(gs) ELSE gs
             player == [this EXCEPT !.score = gs.sharedStats.score,
                                    !.level = gs.sharedStats.level,
                                    !.lines = gs.sharedStats.lines]
         IN addPlayers([checked EXCEPT !.players =
                           [p \in DOMAIN gs.players \cup {id} |->
                              IF p = id THEN player ELSE gs.players[p]]],
                       id + 1, numPlayers, picks)

\* startGame(numPlayers)
startGame(numPlayers, picks) ==
    addPlayers([boardWidth |-> computeBoardWidth(numPlayers),
                board |-> createEmptyBoard(computeBoardWidth(numPlayers)),
                players |-> <<>>,
                sharedStats |-> TEAM_SCORE_TEMPLATE,
                isGameOver |-> FALSE],
               0, numPlayers, picks)

\* The shapes randomPiece() is modelled to return to each player, in turn
ShapeCycle(id) == IF id = 0 THEN <<"O", "S">> ELSE <<"O", "L", "J">>

\* The outcome of the randomPiece() that follows the one that returned `piece`
Following(id, piece) ==
    LET cycle == ShapeCycle(id)
        n == CHOOSE i \in 1..Len(cycle) : SHAPES[cycle[i]] = piece
    IN SHAPES[cycle[(n % Len(cycle)) + 1]]

\* The outcomes of a player's next randomPiece()
PieceInputs(id) == {Following(id, gameState.players[id].nextPiece)}

\* The players still in the game: the input handlers and the game loop pass
\* over an eliminated player, and the loop stops when the game is over
Playing == {id \in DOMAIN gameState.players :
              ~gameState.isGameOver /\ ~gameState.players[id].gameOver}

Relayless ==
    UNCHANGED <<players, sessions, rooms, timers, ioRooms, socketCount, roomCount,
                out, last, reservation, recording, pieceDealer, drawn, batches>>

\* A player's left or right key
MovePiece(id, dir) ==
    /\ id \in Playing
    /\ gameState' = move(gameState, id, dir)
    /\ Relayless

\* A player's rotate key
RotatePiece(id) ==
    /\ id \in Playing
    /\ gameState' = rotate(gameState, id)
    /\ Relayless

\* A player's down key, or gravity in player.update()
DropPiece(id, next) ==
    /\ id \in Playing
    /\ gameState' = drop(gameState, id, next)
    /\ Relayless

\* A player's drop key
HardDropPiece(id, next) ==
    /\ id \in Playing
    /\ gameState' = hardDrop(gameState, id, next)
    /\ Relayless

\* The first two pieces each player draws
PickInputs ==
    {[id \in 0..(BoardPlayers - 1) |->
        <<SHAPES[ShapeCycle(id)[1]], SHAPES[ShapeCycle(id)[2]]>>]}

(***************************************************************************)
(* SpecBoard: one game of BoardPlayers players from startGame on.          *)
(***************************************************************************)
InitBoard ==
    /\ Start
    /\ NoDealer
    /\ recording = FALSE
    /\ \E picks \in PickInputs : gameState = startGame(BoardPlayers, picks)

\* The pieces locked so far: four cells each, BoardWidth cells gone per swept row
Locks(gs) ==
    (Cardinality(Locked(gs.board)) + getBoardWidth(gs) * gs.sharedStats.lines) \div 4

NextBoard ==
    /\ \E id \in 0..(BoardPlayers - 1) :
          \/ \E dir \in {-1, 1} : MovePiece(id, dir)
          \/ RotatePiece(id)
          \/ \E next \in PieceInputs(id) : DropPiece(id, next)
          \/ \E next \in PieceInputs(id) : HardDropPiece(id, next)
    /\ Locks(gameState') <= MaxLocks

SpecBoard == InitBoard /\ [][NextBoard]_vars

(***************************************************************************)
(* SpecSpawn: the first lock of a game  of SpawnPlayers players, on the    *)
(* wider board startGame() gives them; the players start with squares and  *)
(* every later randomPiece() returns one of two shapes.                    *)
(***************************************************************************)
SpawnPlayers == 3
SpawnLocks == 1

\* The outcomes of randomPiece()
SpawnInputs == {SHAPES["O"], SHAPES["T"]}

InitSpawn ==
    /\ Start
    /\ NoDealer
    /\ recording = FALSE
    /\ \E picks \in {[id \in 0..(SpawnPlayers - 1) |-> <<SHAPES["O"], SHAPES["O"]>>]} :
          gameState = startGame(SpawnPlayers, picks)

NextSpawn ==
    /\ \E id \in 0..(SpawnPlayers - 1) :
          \/ \E dir \in {-1, 1} : MovePiece(id, dir)
          \/ RotatePiece(id)
          \/ \E next \in SpawnInputs : DropPiece(id, next)
          \/ \E next \in SpawnInputs : HardDropPiece(id, next)
    /\ Locks(gameState') <= SpawnLocks

SpecSpawn == InitSpawn /\ [][NextSpawn]_vars

(***************************************************************************)
(* SpecGravity: a game of BoardPlayers players that touch no key: the game *)
(* loop calls player.update() of every player in every frame, so each      *)
(* player's drop() is run again and again. randomPiece() returns one of    *)
(* three shapes.                                                           *)
(***************************************************************************)
GravityLocks == 3

\* The outcomes of randomPiece()
GravityInputs == {SHAPES["O"], SHAPES["S"], SHAPES["Z"]}

InitGravity ==
    /\ Start
    /\ NoDealer
    /\ recording = FALSE
    /\ \E picks \in [0..(BoardPlayers - 1) -> {SHAPES["O"]} \X GravityInputs] :
          gameState = startGame(BoardPlayers, picks)

\* player.update() of player id, once its dropCounter has passed dropInterval
Gravity(id) ==
    /\ \E next \in GravityInputs : DropPiece(id, next)
    /\ Locks(gameState') <= GravityLocks

NextGravity == \E id \in 0..(BoardPlayers - 1) : Gravity(id)

SpecGravity ==
    /\ InitGravity
    /\ [][NextGravity]_vars
    /\ \A id \in 0..(BoardPlayers - 1) : WF_vars(Gravity(id))

(***************************************************************************)
(* SpecScore: the scoring of player.clearLines(), applied to sweeps of any *)
(* number of rows a piece can complete, one after the other, in a game     *)
(* whose board is empty after each of them.                                *)
(***************************************************************************)
MaxCleared == 4
MaxLines == 8

Tally(n) ==
    /\ gameState.sharedStats.lines + n <= MaxLines
    /\ gameState' = tallied(gameState, n)
    /\ Relayless

InitScore == InitBoard

NextScore == \E n \in 0..MaxCleared : Tally(n)

SpecScore == InitScore /\ [][NextScore]_vars

(***************************************************************************)
(* Properties of the room registry                                         *)
(***************************************************************************)
Members(room) == 1..Len(room.players)

MemberColors(room) == {room.players[i].color : i \in Members(room)}

\* C1: in every reachable state, each room's usedColors set is exactly the
\* set of colours held by its members, and no two members of a room hold
\* the same colour.
C1_UsedColorsExact ==
    \A r \in DOMAIN rooms :
        /\ rooms[r].usedColors = MemberColors(rooms[r])
        /\ \A i, j \in Members(rooms[r]) :
              i # j => rooms[r].players[i].color # rooms[r].players[j].color

\* A room whose first member moved to the second colour and whose second
\* member was then given the first one
C1_Witness ==
    \E r \in DOMAIN rooms :
        /\ Len(rooms[r].players) = 2
        /\ rooms[r].players[1].color = AVAILABLE_COLORS[2]
        /\ rooms[r].players[2].color = AVAILABLE_COLORS[1]

\* C2: in every reachable state, for every room with at least one connected
\* member, hostSessionId names a member of that room that is connected.
C2_HostIsConnectedMember ==
    \A r \in DOMAIN rooms :
        (\E i \in Members(rooms[r]) : rooms[r].players[i].connected)
        => \E i \in Members(rooms[r]) :
              /\ rooms[r].players[i].sessionId = rooms[r].hostSessionId
              /\ rooms[r].players[i].connected

(***************************************************************************)
(* Properties of the reconnection monitor                                  *)
(***************************************************************************)
\* The index of the member of room r that session s is, in the rooms given
MemberOf(rs, r, s) == IF r \in DOMAIN rs THEN getPlayerBySession(rs[r], s) ELSE 0

\* After the step, session s is a connected member of room r, attached to
\* transport k, holding the given colour
Restored(s, k, r, color) ==
    /\ MemberOf(rooms', r, s) # 0
    /\ rooms'[r].players[MemberOf(rooms', r, s)].connected
    /\ rooms'[r].players[MemberOf(rooms', r, s)].socketId = k
    /\ rooms'[r].players[MemberOf(rooms', r, s)].color = color
    /\ players'[k].roomId = r
    /\ r \in ioRooms'[k]

\* The session that the identify of this step names
Identified == players'[last'.id].sessionId

\* The claim as stated: whenever a session whose member's transport closed
\* identifies again and its grace timer has not fired, it is restored with
\* the colour it held at the disconnect
C3_RejoinRestores ==
    [][(last'.op = "identify" /\ Identified \in DOMAIN reservation)
       => Restored(Identified, last'.id, reservation[Identified].roomId,
                   reservation[Identified].color)]_vars

\* The reservation of session s is live: its grace timer is pending and the
\* session still points at the room it was in
Live(s) ==
    /\ s \in DOMAIN reservation
    /\ sessions[s].disconnectTimer # Null
    /\ sessions[s].roomId = reservation[s].roomId

\* C3: if a room member's transport closes and the same session id
\* re-identifies while its grace timer is still pending (it was neither kicked
\* nor did it leave in between), then afterwards the session is a connected
\* member of the same room, attached to the new transport, holding the colour
\* it held when it re-identified; and that colour is the one it held at the
\* disconnect unless the session itself changed it meanwhile through another
\* of its transports.
C3_RejoinWhileReserved ==
    [][/\ (last'.op = "identify" /\ Live(Identified))
          => /\ MemberOf(rooms, reservation[Identified].roomId, Identified) # 0
             /\ Restored(Identified, last'.id, reservation[Identified].roomId,
                    rooms[reservation[Identified].roomId].players[
                        MemberOf(rooms, reservation[Identified].roomId, Identified)].color)
       /\ \A s \in DOMAIN reservation :
             (/\ Live(s)
              /\ MemberOf(rooms', reservation[s].roomId, s) # 0
              /\ rooms'[reservation[s].roomId].players[
                     MemberOf(rooms', reservation[s].roomId, s)].color
                 # rooms[reservation[s].roomId].players[
                       MemberOf(rooms, reservation[s].roomId, s)].color)
             => (last'.op = "change-color" /\ players[last'.id].sessionId = s)]_vars

\* A session that had moved to the second colour, lost its transport and
\* identified again in time
C3_Witness ==
    /\ last.op = "identify" /\ last.reserved
    /\ \E r \in DOMAIN rooms :
          /\ MemberOf(rooms, r, players[last.id].sessionId) # 0
          /\ rooms[r].players[MemberOf(rooms, r, players[last.id].sessionId)].color
             = AVAILABLE_COLORS[2]
          /\ rooms[r].players[MemberOf(rooms, r, players[last.id].sessionId)].socketId
             = last.id

\* The members other than session s, in order
Others(members, s) == SelectSeq(members, LAMBDA p : p.sessionId # s)

\* The host of a room is one of its members, a connected one if there is any
HostElected(room) ==
    \E j \in Members(room) :
        /\ room.players[j].sessionId = room.hostSessionId
        /\ (\E c \in Members(room) : room.players[c].connected)
           => room.players[j].connected

\* The session whose grace timer fires in this step
Expired == last'.id

\* C4: when the grace timer of a session fires before the session has
\* re-identified, the member is removed from its room, its colour is freed
\* and the host is re-elected if it was the host; the room is deleted from
\* the registry if and only if the removal leaves it with no members.
C4_ExpiryRemoves ==
    [][(/\ last'.op = "grace-expiry"
        /\ MemberOf(rooms, sessions[Expired].roomId, Expired) # 0)
       => LET r == sessions[Expired].roomId
              room == rooms[r]
              i == MemberOf(rooms, r, Expired)
          IN  /\ sessions'[Expired].roomId = Null
              /\ sessions'[Expired].disconnectTimer = Null
              /\ (r \notin DOMAIN rooms') <=> (Len(room.players) = 1)
              /\ r \in DOMAIN rooms' =>
                    /\ rooms'[r].players = Others(room.players, Expired)
                    /\ rooms'[r].usedColors = room.usedColors \ {room.players[i].color}
                    /\ IF room.hostSessionId = Expired
                       THEN HostElected(rooms'[r])
                       ELSE rooms'[r].hostSessionId = room.hostSessionId
              /\ \A q \in DOMAIN rooms \ {r} : q \in DOMAIN rooms' /\ rooms'[q] = rooms[q]]_vars

\* The timer of a host that never came back has fired, and the room, which
\* another member had joined meanwhile, has a new host
C4_Witness ==
    /\ last.op = "grace-expiry" /\ last.reserved
    /\ \E n \in 1..Len(out) : out[n].ev = "host-changed"
    /\ \E r \in DOMAIN rooms : Len(rooms[r].players) = 1

\* C5: identify cancels the session's pending cleanup timer in the step that
\* re-attaches it: after an identify no timer is pending for the session, and
\* every pending timer is the one its session currently holds, so that no
\* timer armed before an identify can run cleanup after it; a timer that
\* fires for a session that does not exist or has no room changes nothing.
C5_IdentifyCancelsTimer ==
    [][/\ last'.op = "identify"
          => /\ sessions'[Identified].disconnectTimer = Null
             /\ \A h \in timers' : h.sessionId # Identified
       /\ \A h \in timers' :
             /\ HasSession(h.sessionId)'
             /\ sessions'[h.sessionId].disconnectTimer = h.id
       /\ (/\ last'.op = "grace-expiry"
           /\ (HasSession(Expired) => sessions[Expired].roomId = Null))
          => (UNCHANGED <<rooms, players, ioRooms>> /\ out' = <<>>)]_vars

\* A member re-identified while its timer was pending, and no timer is left
C5_Witness ==
    /\ last.op = "identify" /\ last.reserved
    /\ timers = {}
    /\ Cardinality(DOMAIN sessions) = RelaySessions
    /\ \E r \in DOMAIN rooms : Len(rooms[r].players) = RelaySessions

(***************************************************************************)
(* Properties of the game start and of the snapshot relay                  *)
(***************************************************************************)
\* The positions of the log that hold a game-start broadcast to a room
Starts(log) == {n \in 1..Len(log) : log[n].ev = "game-start" /\ ~log[n].data.resumed}

\* Once session s has toggled, every member of the room is connected and
\* ready: s is a connected member that was not ready, the others are
\* connected and ready
ReadyWith(room, s) ==
    /\ getPlayerBySession(room, s) # 0
    /\ \A j \in Members(room) :
          /\ room.players[j].connected
          /\ room.players[j].ready <=> room.players[j].sessionId # s

\* The socket whose toggle-ready this step handles is in an existing room
Toggles ==
    /\ last'.op = "toggle-ready"
    /\ HasSession(players[last'.id].sessionId)
    /\ players[last'.id].roomId \in DOMAIN rooms

\* C6: a game begins only at a toggle-ready after which the room is
\* non-empty and every member is connected and ready; at that moment exactly
\* one game-start carrying the piece seed is broadcast to the room, the room
\* becomes started and all ready flags are reset; no other step broadcasts a
\* game-start or gives a room a game.
C6_GameStartsWhenAllReady ==
    [][/\ Toggles =>
          LET r == players[last'.id].roomId
          IN  IF ReadyWith(rooms[r], players[last'.id].sessionId)
              THEN /\ Cardinality(Starts(out')) = 1
                   /\ \A n \in Starts(out') :
                         /\ out'[n].to = InRoom(ioRooms, r)
                         /\ out'[n].data.pieceSeed = rooms'[r].currentGame.seed
                   /\ rooms'[r].gameStarted
                   /\ rooms'[r].currentGame.present
                   /\ Len(rooms'[r].players) = Len(rooms[r].players)
                   /\ Len(rooms'[r].players) >= 1
                   /\ \A j \in Members(rooms'[r]) : ~rooms'[r].players[j].ready
              ELSE /\ Starts(out') = {}
                   /\ rooms'[r].currentGame = rooms[r].currentGame
                   /\ rooms'[r].gameStarted = rooms[r].gameStarted
       /\ ~Toggles =>
             /\ Starts(out') = {}
             /\ \A r \in DOMAIN rooms' :
                   IF r \in DOMAIN rooms
                   THEN /\ rooms'[r].gameStarted = rooms[r].gameStarted
                        /\ rooms'[r].currentGame.present = rooms[r].currentGame.present
                   ELSE ~rooms'[r].gameStarted /\ ~rooms'[r].currentGame.present]_vars

\* The second of two members has toggled ready: one game-start went to both
C6_Witness ==
    /\ last.op = "toggle-ready"
    /\ Cardinality(Starts(out)) = 1
    /\ \A n \in Starts(out) : Cardinality(out[n].to) = 2
    /\ \E r \in DOMAIN rooms :
          /\ Len(rooms[r].players) = 2
          /\ rooms[r].gameStarted
          /\ \A j \in Members(rooms[r]) : ~rooms[r].players[j].ready

\* The first 224 pieces of a fresh piece dealer, for the seeds in use
FirstPieces ==
    [seed \in {ToUint32(s) : s \in SeedInputs} |->
        nextBatch(createPieceDealer(seed), INITIAL_BATCH).pieces]

Accepts(r) ==
    /\ last'.op = "game-state"
    /\ players[last'.id].roomId = r
    /\ \E n \in 1..Len(out') : out'[n].ev = "game-state"

\* C9: within one game instance, the sequence numbers stamped on successive
\* accepted game-state snapshots are strictly increasing, whether the host
\* supplies a numeric sequence or the relay auto-increments.
C9_SequenceIncreases ==
    [][\A r \in DOMAIN rooms :
          (Accepts(r) /\ rooms[r].currentGame.lastStatePayload.present)
          => rooms'[r].currentGame.lastStatePayload.sequence
             > rooms[r].currentGame.lastStatePayload.sequence]_vars

\* The transports of the connected members of a room other than session s
OtherMembers(room, s) ==
    {room.players[j].socketId :
        j \in {i \in Members(room) : /\ room.players[i].sessionId # s
                                     /\ room.players[i].connected}}

\* C10: a game-state from a member that is not the room's current host is
\* ignored: nothing is sent and the room's stateSequence and stored snapshot
\* are unchanged; the current host's submission, once taken, is forwarded to
\* every other member and never back to the host.
C10_OnlyHostRelays ==
    [][\A r \in DOMAIN rooms :
          (/\ last'.op = "game-state"
           /\ players[last'.id].roomId = r
           /\ rooms[r].currentGame.present
           /\ getPlayerBySession(rooms[r], players[last'.id].sessionId) # 0)
          => IF players[last'.id].sessionId # rooms[r].hostSessionId
             THEN out' = <<>> /\ rooms' = rooms
             ELSE \A n \in 1..Len(out') :
                     /\ OtherMembers(rooms[r], rooms[r].hostSessionId) \subseteq out'[n].to
                     /\ last'.id \notin out'[n].to
                     /\ hostSocketId(rooms[r]) \notin out'[n].to]_vars

\* C12: a member who re-identifies into a room whose game has already
\* started is sent game-start for the running game and then, when the host
\* has sent a snapshot, the last snapshot, as the last messages of the
\* identify and so before any later snapshot of the host.
C12_RejoinMidGame ==
    [][\A r \in DOMAIN rooms :
          (/\ last'.op = "identify"
           /\ players'[last'.id].sessionId \in DOMAIN sessions
           /\ sessions[players'[last'.id].sessionId].roomId = r
           /\ getPlayerBySession(rooms[r], players'[last'.id].sessionId) # 0
           /\ rooms[r].gameStarted)
          => LET game == rooms[r].currentGame
                 n == Len(out')
                 start == IF game.lastStatePayload.present THEN n - 1 ELSE n
             IN  /\ start >= 1
                 /\ out'[start].ev = "game-start"
                 /\ out'[start].to = {last'.id}
                 /\ out'[start].data.pieceSeed = game.seed
                 /\ out'[start].data.pieceSequence = game.initialPieces
                 /\ game.lastStatePayload.present
                       => out'[n] = Msg("game-state", {last'.id}, game.lastStatePayload)]_vars

\* The reply of a handler that refused the request of transport k
Refused(log, k) == Len(log) = 1 /\ log[1].ev = "error" /\ log[1].to = {k}

\* C13: join-room is refused with an error reply and leaves every room as it
\* was when the room does not exist, is private and the supplied code is
\* missing or different, has already started, or has maxPlayers members none
\* of which is the joining session; a session that is already a member of
\* the room is admitted whatever the number of members and keeps its colour.
C13_JoinRejected ==
    [][\A k \in OpenSockets, r \in RoomIdInputs, c \in JoinCodes :
          Logged("join-room", k, JoinRoom(k, r, c))
          => LET s == players[k].sessionId
                 member == r \in DOMAIN rooms /\ getPlayerBySession(rooms[r], s) # 0
                 wrongCode == /\ rooms[r].isPrivate
                              /\ \/ c = NotAString
                                 \/ toUpperCase(trim(c)) # rooms[r].accessCode
                 full == Len(rooms[r].players) >= MAX_PLAYERS /\ ~member
             IN  IF r \notin DOMAIN rooms THEN Refused(out', k) /\ rooms' = rooms
                 ELSE IF wrongCode \/ rooms[r].gameStarted \/ full
                 THEN Refused(out', k) /\ rooms' = rooms
                 ELSE member =>
                        LET i == getPlayerBySession(rooms[r], s)
                        IN  /\ out'[1].ev = "room-joined"
                            /\ Len(rooms'[r].players) = Len(rooms[r].players)
                            /\ rooms'[r].players[i].sessionId = s
                            /\ rooms'[r].players[i].color = rooms[r].players[i].color
                            /\ rooms'[r].usedColors = rooms[r].usedColors]_vars

\* A fifth session was refused by a full room
C13_Witness ==
    /\ last.op = "join-room"
    /\ Refused(out, last.id)
    /\ out[1].data = "Room is full"
    /\ \E r \in DOMAIN rooms :
          /\ Len(rooms[r].players) = MAX_PLAYERS
          /\ getPlayerBySession(rooms[r], players[last.id].sessionId) = 0

\* C14: a join-room for a room in which the session is already a connected
\* member is refused with an error reply and leaves the room as it was,
\* every member's ready flag included.
C14_DuplicateJoinRejected ==
    [][\A k \in OpenSockets, r \in DOMAIN rooms, c \in JoinCodes :
          (/\ Logged("join-room", k, JoinRoom(k, r, c))
           /\ getPlayerBySession(rooms[r], players[k].sessionId) # 0
           /\ rooms[r].players[getPlayerBySession(rooms[r], players[k].sessionId)].connected)
          => Refused(out', k) /\ rooms' = rooms]_vars

\* The rooms in which session s holds a membership
RoomsOf(s) == {r \in DOMAIN rooms : getPlayerBySession(rooms[r], s) # 0}

\* C15: in every reachable state each session is a member of at most one
\* room.
C15_OneRoomPerSession ==
    \A s \in DOMAIN sessions : Cardinality(RoomsOf(s)) <= 1

\* C20: a room is in the registry exactly from its create-room until the
\* leave, kick or grace expiry that leaves it with no members: no room of the
\* registry has an empty member list, a room enters the registry only by a
\* create-room, and a room goes only in a step that removes its last member.
C20_RoomLifetime ==
    [][/\ \A r \in DOMAIN rooms' : Len(rooms'[r].players) > 0
       /\ \A r \in DOMAIN rooms' \ DOMAIN rooms :
             \E k \in OpenSockets : CreateRoom(k, FALSE, NotAString)
       /\ \A r \in DOMAIN rooms \ DOMAIN rooms' :
             /\ Len(rooms[r].players) = 1
             /\ \/ \E k \in OpenSockets : LeaveRoom(k)
                \/ \E k \in OpenSockets, t \in SessionTargets : KickPlayer(k, t)
                \/ \E h \in timers : GraceExpiry(h)]_vars

\* The first of two rooms is gone from the registry and the second is there
C20_Witness ==
    /\ roomCount = 2
    /\ DOMAIN rooms = {2}
    /\ \E s \in DOMAIN sessions : sessions[s].roomId = Null

\* C16: creating a private room fails with an error reply and creates no
\* room when the access code is missing or, once trimmed, upper-cased and
\* rid of everything but letters and digits, is shorter than 4 characters
\* ("AB"); otherwise the room is created and stores the normalised code
\* ("ab12!!" is stored as "AB12", a longer code is cut to 8 characters).
\* Every stored access code is 4 to 8 characters out of A-Z and 0-9.
C16_PrivateRoomCode ==
    [][/\ \A k \in OpenSockets, c \in CodeInputs :
             Logged("create-room", k, CreateRoom(k, TRUE, c))
             => IF c \in {NotAString, <<"A", "B">>}
                THEN Refused(out', k) /\ rooms' = rooms /\ roomCount' = roomCount
                ELSE /\ DOMAIN rooms' = DOMAIN rooms \cup {roomCount'}
                     /\ roomCount' \notin DOMAIN rooms
                     /\ rooms'[roomCount'].isPrivate
                     /\ c = <<"a", "b", "1", "2", "!", "!">>
                           => rooms'[roomCount'].accessCode = <<"A", "B", "1", "2">>
                     /\ c = <<" ", "a", "b", "c", "d", "e", "f", "g", "h", "i">>
                           => rooms'[roomCount'].accessCode
                                 = <<"A", "B", "C", "D", "E", "F", "G", "H">>
       /\ \A r \in DOMAIN rooms' :
             rooms'[r].isPrivate
             => /\ Len(rooms'[r].accessCode) \in 4..8
                /\ \A i \in 1..Len(rooms'[r].accessCode) :
                      IsCodeChar(rooms'[r].accessCode[i])]_vars

\* A private room was created from the code "ab12!!"
C16_Witness ==
    /\ last.op = "create-room"
    /\ \E r \in DOMAIN rooms :
          rooms[r].isPrivate /\ rooms[r].accessCode = <<"A", "B", "1", "2">>

\* The colours a handler of SpecLobby may be asked for
LobbyColors == {AVAILABLE_COLORS[1], AVAILABLE_COLORS[2], NoColor}

\* C17: a change-color to a colour held by another member is refused with an
\* error reply and leaves every member's colour and usedColors as they were;
\* a change-color that succeeds releases the member's previous colour, which
\* any other member can then take.
C17_ColorConflict ==
    [][\A k \in OpenSockets, c \in LobbyColors :
          (/\ Logged("change-color", k, ChangeColor(k, c))
           /\ InRoomContext(k)
           /\ getPlayerBySession(rooms[players[k].roomId], players[k].sessionId) # 0)
          => LET r == players[k].roomId
                 s == players[k].sessionId
                 i == getPlayerBySession(rooms[r], s)
                 old == rooms[r].players[i].color
             IN  IF \E j \in Members(rooms[r]) : j # i /\ rooms[r].players[j].color = c
                 THEN Refused(out', k) /\ rooms' = rooms
                 ELSE ~Refused(out', k)
                      => /\ rooms'[r].players[i].color = c
                         /\ c \in rooms'[r].usedColors
                         /\ old \notin rooms'[r].usedColors
                         /\ \A j \in Members(rooms[r]) \ {i} :
                               /\ rooms'[r].players[j] = rooms[r].players[j]
                               /\ setPlayerColor(rooms'[r], rooms[r].players[j].sessionId,
                                                 old).success]_vars

\* The first member gave up the first colour, the second member holds it,
\* and a change-color has just been refused
C17_Witness ==
    /\ last.op = "change-color"
    /\ Refused(out, last.id)
    /\ \E r \in DOMAIN rooms :
          /\ Len(rooms[r].players) = 2
          /\ rooms[r].players[1].color = AVAILABLE_COLORS[2]
          /\ rooms[r].players[2].color = AVAILABLE_COLORS[1]

\* The sockets of the connected members of a room
Connected(room) ==
    {room.players[i].socketId : i \in {j \in Members(room) : room.players[j].connected}}

\* C18: kick-player changes no state and emits nothing unless the caller is
\* the room's current host and the target is another member of that room;
\* when it applies the target goes as by leave-room (its membership is
\* removed, its colour freed, its session's room cleared, its pending grace
\* timer cancelled), the target is sent left-room and then kicked, and the
\* remaining members get room-update.
C18_KickOnlyByHost ==
    [][\A k \in OpenSockets, t \in SessionTargets :
          Logged("kick-player", k, KickPlayer(k, t))
          => LET r == players[k].roomId
                 applies == /\ InRoomContext(k)
                            /\ rooms[r].hostSessionId = players[k].sessionId
                            /\ hostSocketId(rooms[r]) = k
                            /\ getPlayerBySession(rooms[r], t.id) # 0
                            /\ t.id # players[k].sessionId
                 entry == rooms[r].players[getPlayerBySession(rooms[r], t.id)]
                 open == entry.socketId \in OpenSockets
                 n == IF open THEN 3 ELSE 1
             IN  IF ~applies
                 THEN /\ out' = <<>>
                      /\ UNCHANGED <<players, sessions, rooms, timers, ioRooms>>
                 ELSE /\ getPlayerBySession(rooms'[r], t.id) = 0
                      /\ rooms'[r] = removePlayer(rooms[r], t.id).room
                      /\ entry.color \notin rooms'[r].usedColors
                      /\ sessions'[t.id] = releaseSession(sessions[t.id])
                      /\ sessions'[t.id].roomId = Null
                      /\ \A h \in timers' : h.sessionId # t.id
                      /\ open => /\ out'[1] = Msg("left-room", {entry.socketId}, r)
                                 /\ out'[2] = Msg("kicked", {entry.socketId}, r)
                                 /\ r \notin ioRooms'[entry.socketId]
                      /\ Len(out') >= n
                      /\ out'[n].ev = "room-update"
                      /\ Connected(rooms'[r]) \subseteq out'[n].to
                      /\ entry.socketId \notin out'[n].to]_vars

\* The member a room should have for host: the first connected one in join
\* order, or the first one when none is connected
ExpectedHost(room) ==
    LET connected == {i \in Members(room) : room.players[i].connected}
        first == CHOOSE i \in connected : \A j \in connected : i <= j
    IN  IF connected # {} THEN room.players[first].sessionId
        ELSE room.players[1].sessionId

\* Session s gave up its seat in room r, or its seat went disconnected
Left(r, s) ==
    /\ getPlayerBySession(rooms[r], s) # 0
    /\ getPlayerBySession(rooms'[r], s) = 0

WentOffline(r, s) ==
    /\ getPlayerBySession(rooms[r], s) # 0
    /\ getPlayerBySession(rooms'[r], s) # 0
    /\ rooms[r].players[getPlayerBySession(rooms[r], s)].connected
    /\ ~rooms'[r].players[getPlayerBySession(rooms'[r], s)].connected

\* C19: when the current host leaves, is removed by grace expiry, or
\* disconnects while members remain, the new host is the first member in
\* join order that is connected, and the first member in join order when no
\* member is connected; when a member that is not the host leaves or
\* disconnects, the host stays.
C19_HostElection ==
    [][\A r \in DOMAIN rooms \cap DOMAIN rooms' :
          LET host == rooms[r].hostSessionId
          IN  /\ (Left(r, host) \/ WentOffline(r, host))
                 => rooms'[r].hostSessionId = ExpectedHost(rooms'[r])
              /\ \A s \in DOMAIN sessions \ {host} :
                    (Left(r, s) \/ WentOffline(r, s))
                    => rooms'[r].hostSessionId = host]_vars

\* The member that joined second is host while the first one is offline:
\* the election passed over a disconnected member
C19_Witness ==
    \E r \in DOMAIN rooms :
       /\ Len(rooms[r].players) = 2
       /\ ~rooms[r].players[1].connected
       /\ rooms[r].players[2].connected
       /\ rooms[r].hostSessionId = rooms[r].players[2].sessionId
       /\ roomCount = 1
       /\ Cardinality(DOMAIN sessions) = 3

\* C21: in every reachable state every room has at most maxPlayers (4)
\* members, the disconnected members whose seats are held during the grace
\* period included.
C21_AtMostMaxPlayers ==
    \A r \in DOMAIN rooms : Len(rooms[r].players) <= MAX_PLAYERS

\* A fifth session stands outside a room of four members, one of them
\* disconnected with its grace timer pending
C21_Witness ==
    \E r \in DOMAIN rooms :
       /\ Len(rooms[r].players) = MAX_PLAYERS
       /\ \E i \in Members(rooms[r]) :
             /\ ~rooms[r].players[i].connected
             /\ \E h \in timers : h.sessionId = rooms[r].players[i].sessionId
       /\ \E s \in DOMAIN sessions :
             getPlayerBySession(rooms[r], s) = 0 /\ sessions[s].roomId = Null

\* C11: while a game instance exists, each player-input from a member is
\* assigned inputSequence = previous + 1, the submitter's latest sequence is
\* recorded, the event stamped with the member and the assigned sequence is
\* forwarded to every other member and not to the sender, and the sender is
\* sent input-ack with that same sequence.
C11_InputStamped ==
    [][\A r \in DOMAIN rooms :
          (/\ last'.op = "player-input"
           /\ players[last'.id].roomId = r
           /\ rooms[r].currentGame.present
           /\ getPlayerBySession(rooms[r], players[last'.id].sessionId) # 0)
          => LET sid == players[last'.id].sessionId
                 assigned == rooms[r].currentGame.inputSequence + 1
             IN  /\ rooms'[r].currentGame.inputSequence = assigned
                 /\ rooms'[r].currentGame.lastInputByPlayer[sid] = assigned
                 /\ Len(out') = 2
                 /\ out'[1].ev = "player-input"
                 /\ out'[1].data.playerId = sid
                 /\ out'[1].data.sequence = assigned
                 /\ OtherMembers(rooms[r], sid) \subseteq out'[1].to
                 /\ last'.id \notin out'[1].to
                 /\ out'[2] = Msg("input-ack", {last'.id}, assigned)]_vars

(***************************************************************************)
(* Properties of the piece dealer                                          *)
(***************************************************************************)
RECURSIVE Sum(_)
Sum(sizes) == IF sizes = <<>> THEN 0 ELSE Head(sizes) + Sum(Tail(sizes))

\* C8: for every seed, the pieces a dealer yields do not depend on how the
\* draws are split into batches: nextBatch(a) followed by nextBatch(b) on one
\* dealer gives, concatenated, what nextBatch(a + b) gives on another dealer
\* constructed with the same seed, and leaves the two dealers alike.
C8_BatchSplit ==
    /\ drawn = nextBatch(createPieceDealer(pieceDealer.seed), Sum(batches)).pieces
    /\ pieceDealer = nextBatch(createPieceDealer(pieceDealer.seed), Sum(batches)).dealer
    /\ Len(drawn) = Sum(batches)

\* Two batches were drawn, the first ending inside a bag and the second
\* running over the next refill
C8_Witness ==
    /\ Len(batches) = 2
    /\ batches[1] % Len(PIECE_ORDER) # 0
    /\ batches[1] + batches[2] > 2 * Len(PIECE_ORDER)
    /\ pieceDealer.seed = <<65535, 65535>>

\* The sessions a step acts for: the session whose grace timer fires, or
\* the session of the transport whose message is handled, before the handler
\* and after it (identify attaches the transport to a session, create-room
\* and join-room make one for a transport without)
Acting ==
    IF last'.op = "grace-expiry" THEN {last'.id}
    ELSE {players[k].sessionId : k \in {last'.id} \cap DOMAIN players}
            \cup {players'[k].sessionId : k \in {last'.id} \cap DOMAIN players'}

\* What of a room no outsider may change: its members and their colours, its
\* host, its started flag and its game instance
Kept(room) ==
    [members |-> [i \in Members(room) |->
                    <<room.players[i].sessionId, room.players[i].color>>],
     host |-> room.hostSessionId,
     started |-> room.gameStarted,
     game |-> room.currentGame]

\* C27: a handler step, or a grace timer firing, leaves alone every room that
\* no acting session is a member of before the step or after it (a room it
\* creates did not exist before): the room stays, with its members, their
\* colours, its host, its started flag and its game instance.
C27_OtherRoomsUntouched ==
    [][\A r \in DOMAIN rooms :
          (\A s \in Acting :
              /\ getPlayerBySession(rooms[r], s) = 0
              /\ r \in DOMAIN rooms' => getPlayerBySession(rooms'[r], s) = 0)
          => r \in DOMAIN rooms' /\ Kept(rooms'[r]) = Kept(rooms[r])]_vars

\* C28: a game-state or a player-input from a transport whose session has no
\* room, or whose room has no game instance, is dropped: nothing is sent and
\* nothing changes. The one exception is a player-input of a member other
\* than the host while the room has no game instance: it is sent to the other
\* members without a sequence number and acknowledged with sequence null, and
\* the rooms stay as they were.
C28_RelayDropped ==
    [][\A k \in OpenSockets :
          last'.id = k /\ last'.op \in {"game-state", "player-input"}
          => LET s == players[k].sessionId
                 quiet == /\ out' = <<>>
                          /\ rooms' = rooms
                          /\ sessions' = sessions
                          /\ players' = players
             IN  IF ~HasSession(s) \/ sessions[s].roomId \notin DOMAIN rooms
                 THEN quiet
                 ELSE LET room == rooms[sessions[s].roomId]
                      IN  \/ room.currentGame.present
                          \/ IF last'.op = "player-input" /\ s # room.hostSessionId
                             THEN /\ rooms' = rooms
                                  /\ Len(out') = 2
                                  /\ out'[1].ev = "player-input"
                                  /\ out'[1].data.playerId = s
                                  /\ out'[1].data.sequence = NoSeq
                                  /\ OtherMembers(room, s) \subseteq out'[1].to
                                  /\ k \notin out'[1].to
                                  /\ out'[2] = Msg("input-ack", {k}, NoSeq)
                             ELSE quiet]_vars

\* The snapshot a room's game instance has stored
Stored(room) == room.currentGame.lastStatePayload

\* C29: the stored snapshot of a room is the last game-state accepted from
\* its host transport in the current game: such a game-state stores what it
\* carries with the sequence number stamped on it, a game that starts (the
\* first of the room or a later one) has none stored, and no other step
\* changes it. request-sync changes nothing
\* and sends the stored snapshot to the requesting transport alone, or
\* nothing when none is stored.
C29_StoredSnapshot ==
    [][/\ \A r \in DOMAIN rooms \cap DOMAIN rooms' :
             IF /\ last'.op = "game-state"
                /\ players[last'.id].roomId = r
                /\ rooms[r].currentGame.present
                /\ last'.id = hostSocketId(rooms[r])
             THEN \E n \in SequenceInputs, b \in BodyInputs :
                     /\ GameState(last'.id, n, b)
                     /\ Stored(rooms'[r]) =
                           [present |-> TRUE,
                            body |-> b,
                            sequence |-> IF n # NoSeq THEN n
                                         ELSE rooms[r].currentGame.stateSequence + 1,
                            inputAcks |-> rooms[r].currentGame.lastInputByPlayer]
                     /\ out'[1].ev = "game-state"
                     /\ out'[1].data = Stored(rooms'[r])
             ELSE IF /\ last'.op = "toggle-ready"
                     /\ players[last'.id].roomId = r
                     /\ Starts(out') # {}
             THEN ~Stored(rooms'[r]).present
             ELSE Stored(rooms'[r]) = Stored(rooms[r])
       /\ \A k \in OpenSockets :
             last'.id = k /\ last'.op = "request-sync"
             => /\ rooms' = rooms
                /\ IF /\ players[k].roomId \in DOMAIN rooms
                      /\ Stored(rooms[players[k].roomId]).present
                   THEN out' = <<Msg("game-state", {k}, Stored(rooms[players[k].roomId]))>>
                   ELSE out' = <<>>]_vars

\* A member other than the host has just been sent, alone, the snapshot the
\* host sent second
C29_Witness ==
    /\ last.op = "request-sync"
    /\ last.id \in OpenSockets
    /\ players[last.id].roomId \in DOMAIN rooms
    /\ last.id # hostSocketId(rooms[players[last.id].roomId])
    /\ Stored(rooms[players[last.id].roomId]).sequence = 1
    /\ out = <<Msg("game-state", {last.id}, Stored(rooms[players[last.id].roomId]))>>

\* The members of a room that are marked disconnected
Detached(room) == {i \in Members(room) : ~room.players[i].connected}

\* C30: no member of a room is ever at once disconnected and ready.  The
\* loss of a transport leaves the member it served disconnected and not
\* ready, toggle-ready by a transport whose member is disconnected leaves
\* the member not ready, and a member that is attached to a transport again
\* is not ready after the step.
C30_NeverDisconnectedAndReady ==
    /\ [](\A r \in DOMAIN rooms : \A i \in Detached(rooms[r]) : ~rooms[r].players[i].ready)
    /\ [][\A r \in DOMAIN rooms \cap DOMAIN rooms' :
            \A i \in Members(rooms[r]) :
               LET s == rooms[r].players[i].sessionId
                   j == getPlayerBySession(rooms'[r], s)
               IN  j # 0 =>
                   /\ rooms[r].players[i].connected /\ j \in Detached(rooms'[r])
                         => ~rooms'[r].players[j].ready
                   /\ i \in Detached(rooms[r]) /\ last'.op = "toggle-ready"
                         => ~rooms'[r].players[j].ready
                   /\ i \in Detached(rooms[r]) /\ j \notin Detached(rooms'[r])
                         => ~rooms'[r].players[j].ready]_vars

\* A transport was lost while another member of its room was ready: the
\* member it served is disconnected and not ready, the other one still ready
C30_Witness ==
    /\ last.op = "disconnect"
    /\ \E r \in DOMAIN rooms :
          /\ Detached(rooms[r]) # {}
          /\ \E i \in Members(rooms[r]) \ Detached(rooms[r]) : rooms[r].players[i].ready

\* The pieces of the k-th group of seven dealt so far (k from 0), as far as
\* they have been dealt
Group(k) ==
    {n \in (Len(PIECE_ORDER) * k + 1)..(Len(PIECE_ORDER) * (k + 1)) : n <= Len(drawn)}

\* C34: whatever the seed and however the draws are split into batches, each
\* run of seven pieces 7k+1 .. 7k+7 of the dealt sequence holds each of the
\* seven symbols exactly once; a run dealt in part holds no symbol twice.
C34_BagsOfSeven ==
    \A k \in 0..(Len(drawn) \div Len(PIECE_ORDER)) :
       /\ \A m, n \in Group(k) : m # n => drawn[m] # drawn[n]
       /\ \A n \in Group(k) : \E i \in 1..Len(PIECE_ORDER) : drawn[n] = PIECE_ORDER[i]
       /\ Cardinality(Group(k)) = Len(PIECE_ORDER)
             => \A i \in 1..Len(PIECE_ORDER) : \E n \in Group(k) : drawn[n] = PIECE_ORDER[i]

\* Three bags were dealt in full in two batches, neither of which ended with
\* a bag
C34_Witness ==
    /\ Len(batches) = 2
    /\ batches[1] % Len(PIECE_ORDER) # 0
    /\ batches[2] % Len(PIECE_ORDER) # 0
    /\ Len(drawn) >= 3 * Len(PIECE_ORDER)

\* The transports identified as a session
TransportsOf(s) == {j \in OpenSockets : players[j].sessionId = s}

\* The session of transport k is a member of a room and has been identified
\* on another transport since, which is open and the one its member names
MovedOn(k) ==
    LET s == players[k].sessionId
    IN /\ HasSession(s)
       /\ sessions[s].roomId \in DOMAIN rooms
       /\ \E j \in TransportsOf(s) \ {k} :
             LET room == rooms[sessions[s].roomId]
                 i == getPlayerBySession(room, s)
             IN i # 0 /\ room.players[i].socketId = j /\ room.players[i].connected

\* C35: when the transport a session used before closes after the session was
\* identified on another one, no room changes (the member stays connected and
\* the host stays) and no grace timer is armed; and the grace timer of a
\* session that a transport is identified as takes no member out of a room.
C35_StaleCloseIgnored ==
    [][/\ \A k \in OpenSockets :
             Disconnect(k) /\ MovedOn(k) => rooms' = rooms /\ timers' = timers
       /\ \A h \in timers :
             GraceExpiry(h) /\ TransportsOf(h.sessionId) # {} => rooms' = rooms]_vars

\* The session transport k acts for is no member of the room the transport's
\* relay messages go to
Outsider(k) ==
    /\ players[k].roomId \in DOMAIN rooms
    /\ getPlayerBySession(rooms[players[k].roomId], players[k].sessionId) = 0

\* C36: a player-input or a request-sync from a transport whose session is no
\* member of the room (it left, was kicked or was removed when its grace
\* timer fired) reaches no one and changes no room: no input is forwarded
\* to a transport, no input sequence number is used up and no snapshot is
\* returned.
C36_OnlyMembersRelay ==
    [][\A k \in OpenSockets :
          /\ last'.id = k
          /\ last'.op \in {"player-input", "request-sync"}
          /\ Outsider(k)
          => /\ rooms' = rooms
             /\ \A n \in 1..Len(out') :
                   /\ out'[n].ev = "player-input" => out'[n].to = {}
                   /\ out'[n].ev # "game-state"]_vars

\* C37: a player-input that is forwarded to other transports names the
\* session of the transport that sent it as playerId and carries the sequence
\* number that is acknowledged to that transport in the same step, whatever
\* the fields of the object the client sent.
C37_ForwardedAsAcknowledged ==
    [][\A k \in OpenSockets : \A d \in InputData :
          /\ Logged("player-input", k, PlayerInput(k, d))
          /\ \E n \in 1..Len(out') : out'[n].ev = "player-input" /\ out'[n].to # {}
          => \A n, m \in 1..Len(out') :
                out'[n].ev = "player-input" /\ out'[m].ev = "input-ack"
                => /\ out'[n].data.playerId = players[k].sessionId
                   /\ out'[n].data.sequence = out'[m].data
                   /\ out'[m].to = {k}]_vars

\* C38: while a room's game is in progress no game-start is broadcast (one
\* sent to a member that resumes apart) and a toggle-ready leaves the room's
\* game instance, with its seed, its pieces, its sequence counters and its
\* stored snapshot, as it is.
C38_GameNotRestarted ==
    [][\A r \in DOMAIN rooms \cap DOMAIN rooms' :
          rooms[r].gameStarted /\ rooms[r].currentGame.present
          => /\ \A n \in Starts(out') : out'[n].to \cap InRoom(ioRooms, r) = {}
             /\ last'.op = "toggle-ready" /\ players[last'.id].roomId = r
                   => /\ rooms'[r].currentGame = rooms[r].currentGame
                      /\ rooms'[r].gameStarted]_vars

\* C39: if from some point on every transport is closed (so that no session
\* identifies again), and every armed grace timer fires, the room registry is
\* empty from some point on: no room is left holding members for ever.
C39_RoomsDrain == <>[](OpenSockets = {}) => <>[](DOMAIN rooms = {})

\* A room whose members all have their transport closed and a timer armed,
\* and which the timers then empty
C39_Witness ==
    /\ OpenSockets = {}
    /\ DOMAIN rooms = {}
    /\ roomCount > 0
    /\ last.op = "grace-expiry"

(***************************************************************************)
(* Properties of the shared board                                          *)
(***************************************************************************)
\* The cells of a player's falling piece
PieceCells(gs, id) == Cells(gs.players[id].currentPiece, gs.players[id].position)

\* The players not eliminated
Alive(gs) == {id \in DOMAIN gs.players : ~gs.players[id].gameOver}

\* The cells of a piece that are outside the board of the game
Outside(cells) ==
    {c \in cells : \/ c[1] < 0 \/ c[1] >= Len(gameState.board[1])
                    \/ c[2] < 0 \/ c[2] >= BoardHeight}

\* The cells covered by the falling pieces of the players other than id that
\* are not eliminated
OtherPieces(gs, id) == UNION {PieceCells(gs, p) : p \in Alive(gs) \ {id}}

\* The cells of player id's piece moved down by a number of rows
Lowered(gs, id, rows) ==
    Cells(gs.players[id].currentPiece,
          [gs.players[id].position EXCEPT !.y = @ + rows])

\* Player id's piece cannot be moved down by that many rows
Blocked(gs, id, rows) ==
    \/ Outside(Lowered(gs, id, rows)) # {}
    \/ Lowered(gs, id, rows) \cap Locked(gs.board) # {}
    \/ Lowered(gs, id, rows) \cap OtherPieces(gs, id) # {}

\* ... and only because of another player's falling piece: no cell of it would
\* be under the floor or on a locked cell
OnlySoftBlocked(gs, id, rows) ==
    /\ Outside(Lowered(gs, id, rows)) = {}
    /\ Lowered(gs, id, rows) \cap Locked(gs.board) = {}
    /\ Lowered(gs, id, rows) \cap OtherPieces(gs, id) # {}

\* The rows player id's piece can fall before it is blocked
FreeRows(gs, id) ==
    CHOOSE rows \in 0..BoardHeight :
       /\ Blocked(gs, id, rows + 1)
       /\ \A r \in 1..rows : ~Blocked(gs, id, r)

\* C22: a drop or hard drop stopped only by another player's falling piece
\* does not lock the piece: the board, the team statistics, every player's
\* pieces and elimination flags and the game-over flag stay as they were, and
\* the piece rests on the last row it could reach (where it was, for a drop).
C22_SoftBlockDoesNotLock ==
    [][\A id \in DOMAIN gameState.players : \A next \in PieceInputs(id) :
          /\ DropPiece(id, next) /\ OnlySoftBlocked(gameState, id, 1)
                => gameState' = gameState
          /\ HardDropPiece(id, next)
                /\ OnlySoftBlocked(gameState, id, FreeRows(gameState, id) + 1)
                => gameState' = [gameState EXCEPT !.players[id].position.y =
                                                     @ + FreeRows(gameState, id)]]_vars

\* A player's piece hangs right above another player's falling piece, some
\* rows below where it was spawned and with empty cells, not the floor or a
\* locked cell, under the rest of it
C22_Witness ==
    \E id \in Playing :
       /\ OnlySoftBlocked(gameState, id, 1)
       /\ gameState.players[id].position.y > 0
       /\ Locked(gameState.board) # {}

\* C23: no cell of the falling piece of a player who is not eliminated is on a
\* locked cell of the board
C23_NoPieceOnLockedCell ==
    \A id \in Alive(gameState) :
       PieceCells(gameState, id) \cap Locked(gameState.board) = {}


\* The cells player id's piece would cover after a move to the side
Shifted(gs, id, dir) ==
    Cells(gs.players[id].currentPiece, [gs.players[id].position EXCEPT !.x = @ + dir])

\* The cells player id's piece would cover after a rotation
Turned(gs, id) == Cells(rotated(gs.players[id].currentPiece), gs.players[id].position)

\* No two players that are not eliminated have a cell of their falling pieces
\* in common
NoSharedCell ==
    \A p, q \in Alive(gameState) :
       p # q => PieceCells(gameState, p) \cap PieceCells(gameState, q) = {}

\* C24: the falling pieces of two players that are not eliminated never cover
\* the same cell; a move or a rotation that would put the piece on another
\* player's piece changes nothing, and a drop that would do so leaves the piece
\* where and as it is, or locks it where it is when the floor or a locked cell
\* is under it as well. (A spawned piece is placed clear of the others or its
\* player is eliminated: this is the invariant after a lock.)
C24_PiecesNeverOverlap ==
    /\ []NoSharedCell
    /\ [][\A id \in DOMAIN gameState.players :
             /\ \A dir \in {-1, 1} :
                   MovePiece(id, dir)
                     /\ Shifted(gameState, id, dir) \cap OtherPieces(gameState, id) # {}
                   => gameState' = gameState
             /\ RotatePiece(id) /\ Turned(gameState, id) \cap OtherPieces(gameState, id) # {}
                   => gameState' = gameState
             /\ \A next \in PieceInputs(id) :
                   DropPiece(id, next)
                     /\ Lowered(gameState, id, 1) \cap OtherPieces(gameState, id) # {}
                   => \/ gameState' = gameState
                      \/ /\ ~OnlySoftBlocked(gameState, id, 1)
                         /\ gameState'.board = swept(merge(gameState, id).board)]_vars

\* After a lock a player's piece stands beside another player's piece, so
\* that a move to the side would put it on that piece and on nothing else,
\* and below one, so that a rotation would
C24_Witness ==
    /\ Locked(gameState.board) # {}
    /\ \E id \in Playing : \E dir \in {-1, 1} :
          /\ Shifted(gameState, id, dir) \cap OtherPieces(gameState, id) # {}
          /\ Shifted(gameState, id, dir) \cap Locked(gameState.board) = {}
          /\ Outside(Shifted(gameState, id, dir)) = {}
    /\ \E id \in Playing :
          /\ Turned(gameState, id) \cap OtherPieces(gameState, id) # {}
          /\ Turned(gameState, id) \cap Locked(gameState.board) = {}
          /\ Outside(Turned(gameState, id)) = {}


\* C25: a sweep of n >= 1 rows at combo chain c adds
\* n * (10 + c) * (8 + 2 * n) to the team score and n to the team lines, 192 a
\* row and 768 in all for n = 4 and c = 2; every player's score is the team
\* score afterwards.
C25_SweepScore ==
    [][\A n \in 1..MaxCleared :
          Tally(n) =>
            LET c == gameState.sharedStats.comboChain
                gained == gameState'.sharedStats.score - gameState.sharedStats.score
            IN /\ gained = n * (10 + c) * (8 + 2 * n)
               /\ gameState'.sharedStats.lines = gameState.sharedStats.lines + n
               /\ n = 4 /\ c = 2 => gained = 768 /\ gained = 4 * 192
               /\ \A p \in DOMAIN gameState.players :
                     gameState'.players[p].score = gameState'.sharedStats.score]_vars

\* Sweeps of one, one and four rows in a row: 100 + 110 + 768
C25_Witness ==
    /\ gameState.sharedStats.comboChain = 3
    /\ gameState.sharedStats.lines = 6
    /\ gameState.sharedStats.score = 978
    /\ \A p \in DOMAIN gameState.players : gameState.players[p].score = 978


\* C26: the game is over exactly when every player is eliminated, so from the
\* failed spawn of the last player on and not while a player is still in the
\* game; a player once eliminated stays eliminated.
C26_GameOverWhenAllEliminated ==
    /\ [](gameState.isGameOver <=> Alive(gameState) = {})
    /\ [][\A id \in DOMAIN gameState.players :
             gameState.players[id].gameOver => gameState'.players[id].gameOver]_vars

\* The last player was eliminated by a failed spawn after a lock
C26_Witness ==
    /\ gameState.isGameOver
    /\ Alive(gameState) = {}
    /\ DOMAIN gameState.players # {}
    /\ Locked(gameState.board) # {}


\* The floor or a locked cell keeps player id's piece from moving down by that
\* many rows
HardBlocked(gs, id, rows) ==
    \/ Outside(Lowered(gs, id, rows)) # {}
    \/ Lowered(gs, id, rows) \cap Locked(gs.board) # {}

\* The board with player id's piece, moved down by a number of rows, written
\* into it
Merged(gs, id, rows) ==
    [y \in 1..BoardHeight |->
       [x \in 1..Len(gs.board[y]) |->
          IF <<x - 1, y - 1>> \in Lowered(gs, id, rows) THEN id + 1 ELSE gs.board[y][x]]]

\* The rows of a board that are complete, from the top
Complete(board) == {y \in 1..Len(board) : \A x \in 1..Len(board[y]) : board[y][x] # 0}

\* `after` is `before` without its complete rows: the other rows in their
\* order and with their contents, under as many empty rows as were complete,
\* and of the same height and width
SweptFrom(before, after) ==
    LET n == Cardinality(Complete(before))
        left == SelectSeq(before, LAMBDA row : \E x \in 1..Len(row) : row[x] = 0)
    IN /\ Len(after) = BoardHeight
       /\ \A y \in 1..Len(after) : Len(after[y]) = Len(before[1])
       /\ Complete(after) = {}
       /\ \A y \in 1..n : \A x \in 1..Len(before[1]) : after[y][x] = 0
       /\ SubSeq(after, n + 1, Len(after)) = left

\* C31: no row of the board is ever complete between two steps, and the board
\* after a lock is the board with the locked piece written into it, without
\* its complete rows (next to each other or not), the other rows in their
\* order and unchanged, as many empty rows on top as rows were complete, of
\* the same height and width; the team's lines grow by that number.
C31_SweepRemovesCompleteRows ==
    /\ [](Complete(gameState.board) = {})
    /\ [][\A id \in DOMAIN gameState.players : \A next \in PieceInputs(id) :
             /\ DropPiece(id, next) /\ HardBlocked(gameState, id, 1)
                   => /\ SweptFrom(Merged(gameState, id, 0), gameState'.board)
                      /\ gameState'.sharedStats.lines = gameState.sharedStats.lines
                            + Cardinality(Complete(Merged(gameState, id, 0)))
             /\ HardDropPiece(id, next)
                   /\ HardBlocked(gameState, id, FreeRows(gameState, id) + 1)
                   => /\ SweptFrom(Merged(gameState, id, FreeRows(gameState, id)),
                                   gameState'.board)
                      /\ gameState'.sharedStats.lines = gameState.sharedStats.lines
                            + Cardinality(Complete(Merged(gameState,
                                                          id, FreeRows(gameState, id))))]_vars

\* One lock completed two rows and rows above them were left with cells: two
\* lines after a single sweep, locked cells on the board
C31_Witness ==
    /\ gameState.sharedStats.lines = 2
    /\ gameState.sharedStats.comboChain = 1
    /\ Locked(gameState.board) # {}


\* The width of the board of a game
Width(gs) == Len(gs.board[1])

\* Player id's piece would cover only empty cells of the board that no other
\* player's falling piece covers, if put at row 0 in column x
Fits(gs, id, piece, x) ==
    \A c \in Cells(piece, [x |-> x, y |-> 0]) :
       /\ c[1] \in 0..(Width(gs) - 1)
       /\ c[2] \in 0..(BoardHeight - 1)
       /\ gs.board[c[2] + 1][c[1] + 1] = 0
       /\ c \notin OtherPieces(gs, id)

\* The columns where player id's piece fits at row 0
FreeColumns(gs, id, piece) ==
    {x \in 0..(Width(gs) - Len(piece[1])) : Fits(gs, id, piece, x)}

\* The preferred column of player id for a piece: its anchor, the
\* (id + 1) / (players + 1) part of the width, less half the piece's width,
\* rounded (halves upwards) and kept within 0 .. width - piece width
Preferred(gs, id, piece) ==
    LET n == Cardinality(DOMAIN gs.players)
        w == Len(piece[1])
        num == 2 * (id + 1) * Width(gs) - w * (n + 1)
        den == 2 * (n + 1)
        nearest == CHOOSE k \in (-Width(gs))..Width(gs) :
                      2 * k * den <= 2 * num + den /\ 2 * num + den < 2 * (k + 1) * den
    IN Min2(Width(gs) - w, Max2(0, nearest))

Distance(a, b) == IF a < b THEN b - a ELSE a - b

\* The piece of player id has just been spawned as the claim has it: its
\* former next piece at row 0, in the free column nearest to the preferred
\* one, the left one of two at the same distance; the player is eliminated
\* exactly when there is no free column
SpawnedNearest(before, after, id) ==
    LET piece == before.players[id].nextPiece
        me == after.players[id]
        free == FreeColumns(after, id, piece)
        preferred == Preferred(after, id, piece)
    IN /\ me.currentPiece = piece
       /\ me.position.y = 0
       /\ me.gameOver <=> free = {}
       /\ free # {} =>
             /\ me.position.x \in free
             /\ \A z \in free :
                   \/ Distance(me.position.x, preferred) < Distance(z, preferred)
                   \/ /\ Distance(me.position.x, preferred) = Distance(z, preferred)
                      /\ me.position.x <= z

\* C32: the piece spawned after a lock is the player's next piece at row 0 in
\* the column nearest to the player's preferred column where it collides with
\* nothing, the left one of two equally near; the player is eliminated exactly
\* when no column from 0 to the board's width less the piece's width admits it.
C32_SpawnNearestFreeColumn ==
    [][\A id \in DOMAIN gameState.players : \A next \in {gameState'.players[id].nextPiece} :
          /\ DropPiece(id, next) /\ HardBlocked(gameState, id, 1)
                => SpawnedNearest(gameState, gameState', id)
          /\ HardDropPiece(id, next)
                /\ HardBlocked(gameState, id, FreeRows(gameState, id) + 1)
                => SpawnedNearest(gameState, gameState', id)]_vars

\* After a lock a player's piece stands at row 0 left of its preferred
\* column, where it does not fit, nor in any column nearer than the one it
\* stands in, while it would fit as far on the right
C32_Witness ==
    /\ Locked(gameState.board) # {}
    /\ \E id \in Playing :
          LET me == gameState.players[id]
              preferred == Preferred(gameState, id, me.currentPiece)
              free == FreeColumns(gameState, id, me.currentPiece)
          IN /\ me.position.y = 0
             /\ me.position.x < preferred
             /\ 2 * preferred - me.position.x \in free
             /\ \A z \in free : Distance(z, preferred) >= preferred - me.position.x


\* The combo chain after a lock that completed n rows
Chained(n) ==
    gameState'.sharedStats.comboChain =
        IF n > 0 THEN gameState.sharedStats.comboChain + 1 ELSE 0

\* C33: a lock that completes at least one row raises comboChain by exactly
\* one and a lock that completes none sets it to 0; a move, a rotation and a
\* drop or hard drop that does not lock leave it as it was.
C33_ComboChain ==
    [][\A id \in DOMAIN gameState.players : \A next \in {gameState'.players[id].nextPiece} :
          /\ \A dir \in {-1, 1} : MovePiece(id, dir) => UNCHANGED gameState.sharedStats
          /\ RotatePiece(id) => UNCHANGED gameState.sharedStats
          /\ DropPiece(id, next) =>
                IF HardBlocked(gameState, id, 1)
                THEN Chained(Cardinality(Complete(Merged(gameState, id, 0))))
                ELSE UNCHANGED gameState.sharedStats
          /\ HardDropPiece(id, next) =>
                IF HardBlocked(gameState, id, FreeRows(gameState, id) + 1)
                THEN Chained(Cardinality(Complete(Merged(gameState, id,
                                                         FreeRows(gameState, id)))))
                ELSE UNCHANGED gameState.sharedStats]_vars

\* Two locks in a row completed rows, the chain is at 2
C33_Witness ==
    /\ gameState.sharedStats.comboChain = 2
    /\ gameState.sharedStats.lines >= 2

\* A lock that completed no row after one that did: the chain is back at 0
C33_WitnessReset ==
    /\ gameState.sharedStats.comboChain = 0
    /\ gameState.sharedStats.lines > 0


\* A drop of player id that finds the floor or a locked cell under the piece,
\* and so locks it
LocksPiece(id) ==
    /\ \E next \in GravityInputs : DropPiece(id, next)
    /\ HardBlocked(gameState, id, 1)

\* C40: under gravity alone, each player's drop being run again and again,
\* every falling piece eventually locks or its owner is eliminated: each player
\* locks a piece again and again, or is eliminated from some point on (or the
\* game has reached the number of locks explored).
C40_GravityLocksEveryPiece ==
    \A id \in 0..(BoardPlayers - 1) :
       \/ []<><<LocksPiece(id)>>_vars
       \/ <>[](gameState.players[id].gameOver)
       \/ <>[](Locks(gameState) = GravityLocks)

\* No state holds the falling pieces of all remaining players above one
\* another: some player still in the game has no other player's piece right
\* under its own
C40_SomePieceFree ==
    Playing # {} => \E id \in Playing : ~OnlySoftBlocked(gameState, id, 1)

\* A piece hangs right above another player's falling piece, below the row it
\* was spawned on, after a piece has locked
C40_Witness ==
    \E id \in Playing :
       /\ OnlySoftBlocked(gameState, id, 1)
       /\ gameState.players[id].position.y > 0
       /\ Locked(gameState.board) # {}
       /\ Locks(gameState) < GravityLocks
=========================================================================
